---- MODULE Spec2Model ----
(***************************************************************************)
(* Tool Lifecycle & Orchestration Engine of tool_manager.py.               *)
(*                                                                         *)
(* Strings the program computes with (versions, timestamps, command        *)
(* output) are sequences of one-character strings; <<>> is "".             *)
(* The filesystem, PATH, the clock, the state file and the answers of      *)
(* subprocesses and of the remote API are the environment: they change     *)
(* between operations, and every operation draws the outcomes of the       *)
(* commands and requests it issues from the sets defined below.            *)
(* Writing the state file is assumed to succeed.                           *)
(***************************************************************************)
EXTENDS Integers, Sequences, FiniteSets, TLC

VARIABLES
    mem,      \* mem[e][t]: the ToolState fields of tool t in engine instance e
    file,     \* the state file tool_state.json shared by all engine instances
    dirs,     \* dirs[t]: the install directory of tool t on disk
    path,     \* the command names resolvable on PATH
    now,      \* the wall clock
    focus,    \* the tool whose installation the environment touches in this behaviour
    last      \* what the operation that is returning did (Idle once the caller has the result)

vars == <<mem, file, dirs, path, now, focus, last>>

\* The clock takes the values 1..MaxClock.
MaxClock == 2

----------------------------------------------------------------------------
(* Catalog *)

\* The modelled part of the catalog, in the dict's insertion order: one clone-based
\* tool and one Go-installed tool.
ToolOrder == <<"sqlmap", "nuclei">>

Tools == {ToolOrder[i] : i \in 1..Len(ToolOrder)}

\* The fields of a SecurityTool the engine reads; git_clone / pip_install say whether
\* install_cmd contains "git clone" / "pip install"; norm_name is
\* name.lower().replace(" ", ""); update_uses_git says whether update_cmd calls git.
Registry ==
    [t \in Tools |->
        CASE t = "sqlmap" ->
               [name |-> "SQLMap", norm_name |-> "sqlmap", repo |-> "sqlmapproject/sqlmap",
                git_clone |-> TRUE, pip_install |-> FALSE, requires_go |-> FALSE,
                has_path |-> TRUE, has_version_cmd |-> TRUE, has_run_cmd |-> TRUE,
                update_uses_git |-> TRUE]
          [] OTHER ->
               [name |-> "Nuclei", norm_name |-> "nuclei", repo |-> "projectdiscovery/nuclei",
                git_clone |-> FALSE, pip_install |-> FALSE, requires_go |-> TRUE,
                has_path |-> TRUE, has_version_cmd |-> TRUE, has_run_cmd |-> TRUE,
                update_uses_git |-> FALSE]]

\* TOOL_REQUIRED_FILES.get(tool_name, [])
ToolRequiredFiles(tool_name) ==
    CASE tool_name = "sqlmap" -> {"sqlmap.py"}
      [] tool_name = "xsstrike" -> {"xsstrike.py"}
      [] tool_name = "dirsearch" -> {"dirsearch.py"}
      [] tool_name = "paramspider" -> {"paramspider/main.py"}
      [] tool_name = "nmap-vulners" -> {"vulners.nse"}
      [] OTHER -> {}

\* TOOL_COMMAND_ALIASES.get(tool_name): {} stands for None
ToolCommandAliases(tool_name) ==
    IF tool_name \in {"dirsearch", "paramspider", "nuclei", "httpx", "subfinder"}
    THEN {tool_name}
    ELSE {}

\* A key that is not in the catalog.
UnknownKey == "nope"

Keys == Tools \cup {UnknownKey}

\* The engine instances: the CLI's ToolUpdater and the ToolExecutor's own ToolUpdater.
Engines == {"cli", "exec"}

----------------------------------------------------------------------------
(* Values *)

EmptyStr == <<>>

\* SecurityTool's defaults for the mutable fields
DefaultState ==
    [installed |-> FALSE, local_version |-> EmptyStr,
     latest_version |-> EmptyStr, last_updated |-> EmptyStr]

\* datetime.now().isoformat(): a non-empty string that determines the clock value
IsoFormat(n) == <<n>>

Absent == [exists |-> FALSE, files |-> {}]

\* The states an install directory is put in: absent, holding something but not
\* the required files, holding everything.
DirStates(t) ==
    {Absent,
     [exists |-> TRUE, files |-> {"README.md"}],
     [exists |-> TRUE, files |-> {"README.md"} \cup ToolRequiredFiles(t)]}

\* The commands whose presence on PATH the engine depends on.
Commands == {"git", "go", "nuclei"}

----------------------------------------------------------------------------
(* Local Availability Prober *)

\* _path_has_content, had it taken a directory that exists for one that has
\* content.
PathHasContent_ExistsOnly(d) == d.exists

PathHasContent(d) ==
    IF ~d.exists THEN FALSE ELSE d.files # {}

CommandExists(tool_name, tool, p) ==
    LET aliases == ToolCommandAliases(tool_name)
        candidates == IF aliases = {} THEN {tool_name, tool.norm_name} ELSE aliases
    IN  \E cmd \in candidates : cmd \in p

IsToolAvailable(tool_name, tool, ds, p) ==
    IF tool.git_clone
    THEN IF ~tool.has_path \/ ~ds[tool_name].exists
         THEN FALSE
         ELSE LET required_files == ToolRequiredFiles(tool_name)
              IN  IF required_files # {}
                  THEN \A rel_path \in required_files : rel_path \in ds[tool_name].files
                  ELSE PathHasContent(ds[tool_name])
    ELSE IF tool.pip_install \/ tool.requires_go
         THEN CommandExists(tool_name, tool, p)
         ELSE IF tool.has_path THEN ds[tool_name].exists ELSE FALSE

\* What the prober reads of a descriptor: the key it is filed under, the name the
\* command candidates are derived from, and how it is installed.
Descriptor(key, norm, clone, pip, go, has_path) ==
    [key |-> key,
     tool |-> [norm_name |-> norm, git_clone |-> clone, pip_install |-> pip,
               requires_go |-> go, has_path |-> has_path]]

\* The nine descriptors of the catalog. dirsearch and paramspider clone and then
\* install a package: their install command holds both "git clone" and
\* "pip install".
CatalogDescriptors ==
    {Descriptor("sqlmap", "sqlmap", TRUE, FALSE, FALSE, TRUE),
     Descriptor("xsstrike", "xsstrike", TRUE, FALSE, FALSE, TRUE),
     Descriptor("dirsearch", "dirsearch", TRUE, TRUE, FALSE, TRUE),
     Descriptor("paramspider", "paramspider", TRUE, TRUE, FALSE, TRUE),
     Descriptor("nuclei-templates", "nucleitemplates", TRUE, FALSE, FALSE, TRUE),
     Descriptor("nuclei", "nuclei", FALSE, FALSE, TRUE, TRUE),
     Descriptor("httpx", "httpx", FALSE, FALSE, TRUE, TRUE),
     Descriptor("subfinder", "subfinder", FALSE, FALSE, TRUE, TRUE),
     Descriptor("nmap-vulners", "nmapvulners", TRUE, FALSE, FALSE, TRUE)}

\* Descriptors a catalog may hold that the shipped one does not: a tool installed
\* by the package manager alone, whose key has no command alias; a tool that is
\* neither cloned nor installed by a package manager or the Go toolchain, with
\* and without an install path; a cloned tool without an install path.
OtherDescriptors ==
    {Descriptor("wfuzz-cli", "wfuzz", FALSE, TRUE, FALSE, TRUE),
     Descriptor("testssl", "testssl", FALSE, FALSE, FALSE, TRUE),
     Descriptor("builtin", "builtin", FALSE, FALSE, FALSE, FALSE),
     Descriptor("pathless", "pathless", TRUE, FALSE, FALSE, FALSE)}

Descriptors == CatalogDescriptors \cup OtherDescriptors

\* The install directories the prober is run on: absent, empty, holding
\* something but not the required files, holding everything.
ProbedDirs(key) ==
    DirStates(key) \cup {[exists |-> TRUE, files |-> {}]}

\* The PATH contents the prober is run on: any of the names it may look up.
ProbedPaths(desc) ==
    SUBSET ({desc.key, desc.tool.norm_name} \cup ToolCommandAliases(desc.key))

\* The SecurityTool object of tool t in a world w: the descriptor together with
\* the mutable fields the engine holds for it.
SecurityTool(w, t) == Registry[t] @@ w.mem[t]

\* The prober, had it trusted the installed flag the engine holds.
Available_Cached(w, t) == SecurityTool(w, t).installed

\* The prober's answer for a catalog tool in a world w.
Available(w, t) == IsToolAvailable(t, SecurityTool(w, t), w.dirs, w.path)

----------------------------------------------------------------------------
(* State Store *)

NoFile == [kind |-> "absent", entries |-> <<>>]

\* A file json.load cannot parse.
CorruptFile == [kind |-> "corrupt", entries |-> <<>>]

\* A JSON object entry whose value is not an object (tool_state.get raises).
MalformedEntry(t) == [key |-> t, dict |-> FALSE, fields |-> <<>>]

\* json.dump of the state dict, had _save_state left last_updated out of it.
JsonDump_NoTimestamp(m) ==
    [kind |-> "json",
     entries |->
        [i \in 1..Len(ToolOrder) |->
            [key |-> ToolOrder[i], dict |-> TRUE,
             fields |-> [k \in {"installed", "local_version"} |->
                            m[ToolOrder[i]][k]]]]]

\* json.dump of the state dict: one object per tool, in catalog order.
JsonDump(m) ==
    [kind |-> "json",
     entries |->
        [i \in 1..Len(ToolOrder) |->
            [key |-> ToolOrder[i], dict |-> TRUE,
             fields |-> [k \in {"installed", "local_version", "last_updated"} |->
                            m[ToolOrder[i]][k]]]]]

\* tool_state.get(k, default)
DictGet(fields, k, default) == IF k \in DOMAIN fields THEN fields[k] ELSE default

RECURSIVE LoadEntries(_, _, _)
\* The loop of _load_state from entry i on; a malformed entry raises, which ends
\* the loop with the assignments made so far.
LoadEntries(m, entries, i) ==
    IF i > Len(entries)
    THEN m
    ELSE LET en == entries[i]
         IN  IF en.key \notin Tools
             THEN LoadEntries(m, entries, i + 1)
             ELSE IF ~en.dict
                  THEN m
                  ELSE LoadEntries(
                         [m EXCEPT ![en.key] =
                             [@ EXCEPT !.installed = DictGet(en.fields, "installed", FALSE),
                                       !.local_version = DictGet(en.fields, "local_version", EmptyStr),
                                       !.last_updated = DictGet(en.fields, "last_updated", EmptyStr)]],
                         entries, i + 1)

LoadState(m, f) ==
    IF f.kind = "json" THEN LoadEntries(m, f.entries, 1) ELSE m

\* _save_state, had it merged into the file: the entry of a tool that is not
\* installed in memory is left as the file has it.
SaveState_Merging(w) ==
    LET dump == JsonDump(w.mem)
        kept(i) == /\ w.file.kind = "json"
                   /\ i \in 1..Len(w.file.entries)
                   /\ w.file.entries[i].key = ToolOrder[i]
                   /\ ~w.mem[ToolOrder[i]].installed
    IN  [w EXCEPT !.file = [dump EXCEPT !.entries =
                               [i \in 1..Len(ToolOrder) |->
                                   IF kept(i) THEN w.file.entries[i] ELSE dump.entries[i]]],
                  !.saves = @ + 1]

\* _save_state
SaveState(w) ==
    [w EXCEPT !.file = JsonDump(w.mem), !.saves = @ + 1]

RECURSIVE SyncFrom(_, _, _)
\* The loop of _sync_installed_state from tool i on; yields the tools and state_changed.
SyncFrom(w, i, state_changed) ==
    IF i > Len(ToolOrder)
    THEN [w |-> w, state_changed |-> state_changed]
    ELSE LET tool_name == ToolOrder[i]
             actual_installed == Available(w, tool_name)
         IN  IF w.mem[tool_name].installed # actual_installed
             THEN SyncFrom(
                    [w EXCEPT !.mem[tool_name] =
                        IF ~actual_installed
                        THEN [@ EXCEPT !.installed = actual_installed,
                                       !.local_version = EmptyStr,
                                       !.last_updated = EmptyStr]
                        ELSE [@ EXCEPT !.installed = actual_installed]],
                    i + 1, TRUE)
             ELSE SyncFrom(w, i + 1, state_changed)

\* _sync_installed_state, had it written the state file whether or not a flag changed.
SyncInstalledState_AlwaysSaves(w) == SaveState(SyncFrom(w, 1, FALSE).w)

SyncInstalledState(w) ==
    LET r == SyncFrom(w, 1, FALSE)
    IN  IF r.state_changed THEN SaveState(r.w) ELSE r.w

----------------------------------------------------------------------------
(* Version Resolver *)

Digits == {"0", "1", "2", "3", "4", "5", "6", "7", "8", "9"}

\* [a-f0-9]
HexLower == Digits \cup {"a", "b", "c", "d", "e", "f"}

\* [a-f0-9] under re.IGNORECASE
HexAnyCase == HexLower \cup {"A", "B", "C", "D", "E", "F"}

\* \s
Whitespace == {" ", "\n", "\t", "\r"}

UpperLetters ==
    <<"A", "B", "C", "D", "E", "F", "G", "H", "I", "J", "K", "L", "M",
      "N", "O", "P", "Q", "R", "S", "T", "U", "V", "W", "X", "Y", "Z">>

LowerLetters ==
    <<"a", "b", "c", "d", "e", "f", "g", "h", "i", "j", "k", "l", "m",
      "n", "o", "p", "q", "r", "s", "t", "u", "v", "w", "x", "y", "z">>

\* str.lower() on one character
LowerChar(c) ==
    IF \E i \in 1..Len(UpperLetters) : UpperLetters[i] = c
    THEN LowerLetters[CHOOSE i \in 1..Len(UpperLetters) : UpperLetters[i] = c]
    ELSE c

\* str.lower()
Lower(s) == [i \in 1..Len(s) |-> LowerChar(s[i])]

\* The index after the longest run of characters of class cls that starts at i.
RunEnd(s, i, cls) ==
    CHOOSE j \in i..(Len(s) + 1) :
        /\ \A k \in i..(j - 1) : s[k] \in cls
        /\ j = Len(s) + 1 \/ s[j] \notin cls

\* The index after the longest run of characters not in cls that starts at i.
RunEndNot(s, i, cls) ==
    CHOOSE j \in i..(Len(s) + 1) :
        /\ \A k \in i..(j - 1) : s[k] \notin cls
        /\ j = Len(s) + 1 \/ s[j] \in cls

\* s[:n]
Prefix(s, n) == SubSeq(s, 1, IF Len(s) < n THEN Len(s) ELSE n)

\* str.strip()
Strip(s) ==
    LET a == RunEnd(s, 1, Whitespace)
    IN  IF a > Len(s)
        THEN EmptyStr
        ELSE LET b == CHOOSE j \in a..Len(s) :
                        /\ s[j] \notin Whitespace
                        /\ \A k \in (j + 1)..Len(s) : s[k] \in Whitespace
             IN  SubSeq(s, a, b)

\* (\d+\.\d+\.\d+) matched at g: the index after the match, 0 if it does not match.
TripleEnd(s, g) ==
    LET a == RunEnd(s, g, Digits)
    IN  IF a = g \/ a > Len(s) \/ s[a] # "."
        THEN 0
        ELSE LET b == RunEnd(s, a + 1, Digits)
             IN  IF b = a + 1 \/ b > Len(s) \/ s[b] # "."
                 THEN 0
                 ELSE LET c == RunEnd(s, b + 1, Digits)
                      IN  IF c = b + 1 THEN 0 ELSE c

\* re.search(r'v?(\d+\.\d+\.\d+)', s, re.IGNORECASE | re.MULTILINE): group 1 of
\* the leftmost match, as <<found, group>>. The optional v never moves the group.
SearchTriple(s) ==
    LET starts == {g \in 1..Len(s) : TripleEnd(s, g) # 0}
    IN  IF starts = {}
        THEN [found |-> FALSE, group |-> EmptyStr]
        ELSE LET g == CHOOSE x \in starts : \A y \in starts : x <= y
             IN  [found |-> TRUE, group |-> SubSeq(s, g, TripleEnd(s, g) - 1)]

VersionWord == <<"v", "e", "r", "s", "i", "o", "n">>

\* version[:\s]+(\S+) matched at p: the start of group 1 (after the longest run of
\* separators that a non-space character follows), 0 if it does not match.
TokenStart(s, p) ==
    IF p + Len(VersionWord) > Len(s)
       \/ \E k \in 1..Len(VersionWord) : LowerChar(s[p + k - 1]) # VersionWord[k]
    THEN 0
    ELSE LET q == p + Len(VersionWord)
             seps == {n \in 1..(Len(s) - q) :
                         /\ \A k \in q..(q + n - 1) : s[k] \in Whitespace \cup {":"}
                         /\ s[q + n] \notin Whitespace}
         IN  IF seps = {}
             THEN 0
             ELSE q + (CHOOSE n \in seps : \A m \in seps : m <= n)

\* re.search(r'version[:\s]+(\S+)', s, re.IGNORECASE | re.MULTILINE)
SearchToken(s) ==
    LET starts == {p \in 1..Len(s) : TokenStart(s, p) # 0}
    IN  IF starts = {}
        THEN [found |-> FALSE, group |-> EmptyStr]
        ELSE LET p == CHOOSE x \in starts : \A y \in starts : x <= y
                 g == TokenStart(s, p)
             IN  [found |-> TRUE, group |-> SubSeq(s, g, RunEndNot(s, g, Whitespace) - 1)]

\* ^([a-f0-9]{7,40})\s*$ matched at line start i: the index after group 1, 0 if
\* it does not match.
HashEnd(s, i) ==
    IF ~(i = 1 \/ s[i - 1] = "\n")
    THEN 0
    ELSE LET e == RunEnd(s, i, HexAnyCase)
         IN  IF e - i < 7 \/ e - i > 40
             THEN 0
             ELSE IF \E j \in e..(Len(s) + 1) :
                        /\ \A k \in e..(j - 1) : s[k] \in Whitespace
                        /\ j = Len(s) + 1 \/ s[j] = "\n"
                  THEN e
                  ELSE 0

\* re.search(r'^([a-f0-9]{7,40})\s*$', s, re.IGNORECASE | re.MULTILINE)
SearchHash(s) ==
    LET starts == {i \in 1..Len(s) : HashEnd(s, i) # 0}
    IN  IF starts = {}
        THEN [found |-> FALSE, group |-> EmptyStr]
        ELSE LET i == CHOOSE x \in starts : \A y \in starts : x <= y
             IN  [found |-> TRUE, group |-> SubSeq(s, i, HashEnd(s, i) - 1)]

\* re.fullmatch(r'[a-f0-9]{8,40}', ver)
IsLongHash(ver) ==
    /\ Len(ver) >= 8
    /\ Len(ver) <= 40
    /\ \A k \in 1..Len(ver) : ver[k] \in HexLower

\* Truncate full git SHA to short hash
ShortHash(ver) == IF IsLongHash(ver) THEN Prefix(ver, 7) ELSE ver

UnknownVersion == <<"u", "n", "k", "n", "o", "w", "n">>

InstalledVersion == <<"i", "n", "s", "t", "a", "l", "l", "e", "d">>

\* The part of _get_local_version after the version command ran with result
\* vout = [ok, stdout, stderr].
ResolveVersion(vout) ==
    IF vout.ok
    THEN LET text == vout.stdout \o vout.stderr
             m1 == SearchTriple(text)
             m2 == SearchToken(text)
             m3 == SearchHash(text)
         IN  IF m1.found THEN ShortHash(m1.group)
             ELSE IF m2.found THEN ShortHash(m2.group)
             ELSE IF m3.found THEN ShortHash(m3.group)
             ELSE IF vout.stdout # EmptyStr
                  THEN Prefix(Strip(vout.stdout), 20)
                  ELSE InstalledVersion
    ELSE UnknownVersion

----------------------------------------------------------------------------
(* Remote Version Oracle *)

\* An empty dict.
EmptyResult == [nonempty |-> FALSE, version |-> EmptyStr]

ReleasesRequest(repo) == <<"GET /repos/{repo}/releases/latest", repo>>

CommitsRequest(repo) == <<"GET /repos/{repo}/commits?per_page=1", repo>>

\* get_latest_commit, given what the commits request meets: r.kind = "exception" is
\* a transport error; otherwise r.status is the HTTP status, r.json_ok says whether
\* response.json() parses, r.commits is the list it yields, and a commit's
\* well_formed says whether commit["commit"]["committer"]["date"], html_url and
\* message can be read. Yields the dict returned and the requests sent.
GetLatestCommit(repo, r) ==
    [reqs |-> <<CommitsRequest(repo)>>,
     result |->
        IF r.kind = "exception"
        THEN EmptyResult
        ELSE IF r.status = 200
             THEN IF ~r.json_ok
                  THEN EmptyResult
                  ELSE IF r.commits # <<>>
                       THEN IF r.commits[1].well_formed
                            THEN [nonempty |-> TRUE, version |-> Prefix(r.commits[1].sha, 7)]
                            ELSE EmptyResult
                       ELSE EmptyResult
             ELSE EmptyResult]

\* get_latest_release, given what the two requests meet: resp.rel for
\* releases/latest (has_tag / tag_name: data.get("tag_name", ""); body: whether
\* data's "body" is a string, null or missing) and resp.commits for the commits
\* request.
GetLatestRelease(repo, resp) ==
    LET r == resp.rel
    IN  IF r.kind = "exception"
        THEN [reqs |-> <<ReleasesRequest(repo)>>, result |-> EmptyResult]
        ELSE IF r.status = 200
             THEN [reqs |-> <<ReleasesRequest(repo)>>,
                   result |->
                      IF ~r.json_ok \/ r.body = "null"
                      THEN EmptyResult
                      ELSE [nonempty |-> TRUE,
                            version |-> IF r.has_tag THEN r.tag_name ELSE EmptyStr]]
             ELSE IF r.status = 404
                  THEN LET c == GetLatestCommit(repo, resp.commits)
                       IN  [reqs |-> <<ReleasesRequest(repo)>> \o c.reqs, result |-> c.result]
                  ELSE [reqs |-> <<ReleasesRequest(repo)>>, result |-> EmptyResult]

\* The decision of check_for_updates, had it compared the versions without asking
\* whether a local version is known.
NeedsUpdate_EqualOnly(local_version, latest) ==
    IF ~latest.nonempty
    THEN [needs_update |-> FALSE, latest_version |-> EmptyStr, note |-> "Could not fetch version info"]
    ELSE IF local_version = latest.version
         THEN [needs_update |-> FALSE, latest_version |-> latest.version,
               note |-> "Already up to date"]
         ELSE [needs_update |-> TRUE, latest_version |-> latest.version, note |-> "Latest"]

\* The decision of check_for_updates once get_latest_release returned latest.
NeedsUpdate(local_version, latest) ==
    IF ~latest.nonempty
    THEN [needs_update |-> FALSE, latest_version |-> EmptyStr, note |-> "Could not fetch version info"]
    ELSE LET latest_version == latest.version
         IN  IF local_version # EmptyStr /\ local_version = latest_version
             THEN [needs_update |-> FALSE, latest_version |-> latest_version,
                   note |-> "Already up to date"]
             ELSE [needs_update |-> TRUE, latest_version |-> latest_version,
                   note |-> "Latest"]

\* check_for_updates, had it cached the version it saw in the tool and persisted it.
CheckForUpdates_Caching(w, tool_name, resp) ==
    LET o == GetLatestRelease(Registry[tool_name].repo, resp)
        d == NeedsUpdate(w.mem[tool_name].local_version, o.result)
    IN  [w |-> SaveState([w EXCEPT !.reqs = @ \o o.reqs,
                                   !.mem[tool_name].latest_version = d.latest_version]),
         latest |-> o.result,
         needs_update |-> d.needs_update,
         latest_version |-> d.latest_version,
         note |-> d.note]

\* check_for_updates in world w: the requests are sent, the tuple is returned
\* together with what the oracle answered.
CheckForUpdates(w, tool_name, resp) ==
    LET o == GetLatestRelease(Registry[tool_name].repo, resp)
        d == NeedsUpdate(w.mem[tool_name].local_version, o.result)
    IN  [w |-> [w EXCEPT !.reqs = @ \o o.reqs],
         latest |-> o.result,
         needs_update |-> d.needs_update,
         latest_version |-> d.latest_version,
         note |-> d.note]

----------------------------------------------------------------------------
(* What the environment answers *)

V100 == <<"1", ".", "0", ".", "0">>

V200 == <<"2", ".", "0", ".", "0">>

\* A full commit SHA.
Sha40 == [i \in 1..40 |-> IF i % 2 = 1 THEN "a" ELSE "1"]

\* What the version-check command prints: a numeric version, or it fails.
VersionOutputs ==
    {[ok |-> TRUE, stdout |-> <<"v">> \o V100 \o <<"\n">>, stderr |-> EmptyStr],
     [ok |-> FALSE, stdout |-> EmptyStr, stderr |-> EmptyStr]}

\* The same SHA as git prints it when asked for upper case.
Sha40Upper == [i \in 1..40 |-> IF i % 2 = 1 THEN "A" ELSE "1"]

\* What a version command may print on stdout: numeric versions, version tokens,
\* hashes of 6, 7, 8 and 40 characters in either case, digits only, text with
\* none of these, blanks, nothing.
ResolverStdouts ==
    {<<"v", "1", ".", "2", ".", "3", " ", "r", "e", "l", "e", "a", "s", "e">>,
     <<"v", "e", "r", "s", "i", "o", "n", ":", " ", "2", ".", "0">>,
     <<"V", "e", "r", "s", "i", "o", "n", " ", "1", ".", "2", ".", "3", "-", "b", "e", "t", "a", "\n">>,
     <<"1", ".", "2", ".", "3", " ", "v", "e", "r", "s", "i", "o", "n", ":", " ", "9", ".", "9">>,
     <<"v", "e", "r", "s", "i", "o", "n", ":", " ", "d", "e", "a", "d", "b", "e", "e", "f", "0", "0">>,
     <<"V", "E", "R", "S", "I", "O", "N", ":", " ", "D", "E", "A", "D", "B", "E", "E", "F", "0", "0">>,
     <<"a", "b", "c", "1", "2", "3", "4", "\n">>,
     <<"a", "b", "c", "1", "2", "3", "4", "5", "\n">>,
     <<"A", "B", "C", "1", "2", "3", "4", "5", "\n">>,
     <<"1", "2", "3", "4", "5", "6", "7", "8">>,
     <<"n", "u", "c", "l", "e", "i", "\n", "a", "b", "c", "1", "2", "3", "4", " ", " ", "\n">>,
     <<"a", "b", "c", "1", "2", "3", "\n">>,
     <<" ", " ", "\n">>,
     <<"s", "q", "l", "m", "a", "p", " ", "r", "e", "a", "d", "y", " ", "t", "o", " ", "s", "c", "a", "n", " ", "t", "a", "r", "g", "e", "t", "s", " ", "n", "o", "w">>,
     EmptyStr,
     Sha40 \o <<"\n">>,
     Sha40Upper \o <<"\n">>}

\* What it may print on stderr.
ResolverStderrs == {EmptyStr, <<"v", "3", ".", "0", ".", "1", "\n">>, <<"w", "a", "r", "n", "i", "n", "g", ":", " ", "d", "e", "p", "r", "e", "c", "a", "t", "e", "d", "\n">>}

\* The results of the version command that _get_local_version is applied to.
ResolverOutputs ==
    [ok : BOOLEAN, stdout : ResolverStdouts, stderr : ResolverStderrs]

NoCommits == [kind |-> "http", status |-> 200, json_ok |-> TRUE, commits |-> <<>>]

ReleaseOk(tag) ==
    [kind |-> "http", status |-> 200, json_ok |-> TRUE, has_tag |-> TRUE,
     tag_name |-> tag, body |-> "string"]

ReleaseStatus(n) ==
    [kind |-> "http", status |-> n, json_ok |-> TRUE, has_tag |-> FALSE,
     tag_name |-> EmptyStr, body |-> "missing"]

\* The oracle scenarios the lifecycle operations meet: a release tagged 2.0.0, a
\* release without tag_name, and a refused request.
OracleScenarios ==
    {[rel |-> ReleaseOk(V200), commits |-> NoCommits],
     [rel |-> [ReleaseOk(EmptyStr) EXCEPT !.has_tag = FALSE], commits |-> NoCommits],
     [rel |-> ReleaseStatus(403), commits |-> NoCommits]}

\* What the releases/latest request can meet: a transport error, a 200 whose body
\* is not JSON, a 200 with or without tag_name and with "body" a string, null or
\* missing, or another status.
ReleaseResponses ==
    {[ReleaseStatus(0) EXCEPT !.kind = "exception"],
     [ReleaseOk(EmptyStr) EXCEPT !.json_ok = FALSE, !.has_tag = FALSE, !.body = "missing"]}
    \cup {[ReleaseOk(V200) EXCEPT !.body = b] : b \in {"string", "null", "missing"}}
    \cup {[ReleaseOk(EmptyStr) EXCEPT !.has_tag = FALSE, !.body = b] :
              b \in {"string", "null", "missing"}}
    \cup {ReleaseStatus(n) : n \in {404, 403, 500}}

CommitsStatus(n) == [NoCommits EXCEPT !.status = n]

\* What the commits request can meet: a transport error, a 200 whose body is not
\* JSON, an empty list, a list whose first commit has or lacks the fields read, or
\* another status.
CommitResponses ==
    {[NoCommits EXCEPT !.kind = "exception"],
     [NoCommits EXCEPT !.json_ok = FALSE],
     NoCommits,
     [NoCommits EXCEPT !.commits = <<[sha |-> Sha40, well_formed |-> TRUE]>>],
     [NoCommits EXCEPT !.commits = <<[sha |-> Sha40, well_formed |-> FALSE]>>],
     CommitsStatus(404), CommitsStatus(403)}

\* What one get_latest_release call may meet; the commits answer matters only
\* after a 404.
OracleResponses ==
    {x \in [rel : ReleaseResponses, commits : CommitResponses] :
        (x.rel.kind = "http" /\ x.rel.status = 404) \/ x.commits = NoCommits}

\* What the install command does: its exit status is zero or not (a timeout counts
\* as not), and it leaves the install directory / PATH in any state.
InstallOutcomes(t) ==
    IF Registry[t].git_clone
    THEN {[exit0 |-> x, dir |-> d, on_path |-> {}] : x \in BOOLEAN, d \in DirStates(t)}
    ELSE {[exit0 |-> x, dir |-> Absent, on_path |-> c] :
             x \in BOOLEAN, c \in {{}, ToolCommandAliases(t)}}

----------------------------------------------------------------------------
(* Lifecycle Engine *)

\* The world an operation of engine e starts in, with nothing done yet.
World(e) ==
    [mem |-> mem[e], file |-> file, dirs |-> dirs, path |-> path,
     cmds |-> <<>>, reqs |-> <<>>, saves |-> 0, removed |-> {}, exit0 |-> FALSE]

GitVersionCmd == <<"git --version", "">>

GoVersionCmd == <<"go version", "">>

\* _run_command launches cmd.
RunCommand(w, cmd) == [w EXCEPT !.cmds = Append(@, cmd)]

\* _check_requirements, had it asked for the Go toolchain whatever the tool.
CheckRequirements_AlwaysGo(w, tool) ==
    LET w1 == RunCommand(w, GitVersionCmd)
    IN  IF "git" \notin w1.path
        THEN [w |-> w1, ok |-> FALSE, msg |-> "Git is not installed"]
        ELSE IF TRUE
             THEN LET w2 == RunCommand(w1, GoVersionCmd)
                  IN  IF "go" \notin w2.path
                      THEN [w |-> w2, ok |-> FALSE, msg |-> "Go is not installed"]
                      ELSE [w |-> w2, ok |-> TRUE, msg |-> "OK"]
             ELSE [w |-> w1, ok |-> TRUE, msg |-> "OK"]

CheckRequirements(w, tool) ==
    LET w1 == RunCommand(w, GitVersionCmd)
    IN  IF "git" \notin w1.path
        THEN [w |-> w1, ok |-> FALSE, msg |-> "Git is not installed"]
        ELSE IF tool.requires_go
             THEN LET w2 == RunCommand(w1, GoVersionCmd)
                  IN  IF "go" \notin w2.path
                      THEN [w |-> w2, ok |-> FALSE, msg |-> "Go is not installed"]
                      ELSE [w |-> w2, ok |-> TRUE, msg |-> "OK"]
             ELSE [w |-> w1, ok |-> TRUE, msg |-> "OK"]

\* _get_local_version, had it answered "unknown" without asking the tool.
GetLocalVersion_Unknown(w, tool_name, vout) == [w |-> w, version |-> UnknownVersion]

GetLocalVersion(w, tool_name, vout) ==
    IF ~Registry[tool_name].has_version_cmd
    THEN [w |-> w, version |-> UnknownVersion]
    ELSE [w |-> RunCommand(w, <<"version", tool_name>>), version |-> ResolveVersion(vout)]

\* The install command runs with outcome o.
RunInstall(w, tool_name, o) ==
    LET w1 == RunCommand(w, <<"install", tool_name>>)
    IN  [w1 EXCEPT !.dirs[tool_name] = IF Registry[tool_name].git_clone THEN o.dir ELSE @,
                   !.path = @ \cup o.on_path,
                   !.exit0 = o.exit0]

\* is_success, had it trusted the exit status alone.
IsSuccess_ExitOnly(success, available) == success

\* is_success, had either sign of success been enough.
IsSuccess_ExitOrProbe(success, available) == success \/ available

\* is_success of install_tool: success is the install command's exit status being
\* zero, available the prober's answer after the command ran.
IsSuccess(success, available) == success /\ available

\* install_tool, had it not looked whether the tool is already available.
InstallTool_AlwaysReinstalls(w, tool_name, inp, clock) ==
    IF tool_name \notin Tools
    THEN [w |-> w, ok |-> FALSE]
    ELSE
    LET tool == Registry[tool_name]
        req == CheckRequirements(w, tool)
    IN  IF ~req.ok
        THEN [w |-> req.w, ok |-> FALSE]
        ELSE IF FALSE
        THEN LET v == GetLocalVersion(req.w, tool_name, inp.vout)
             IN  [w |-> SaveState(
                          [v.w EXCEPT !.mem[tool_name] =
                              [@ EXCEPT !.installed = TRUE,
                                        !.local_version = v.version,
                                        !.last_updated =
                                            IF @ = EmptyStr THEN IsoFormat(clock) ELSE @]]),
                  ok |-> TRUE]
        ELSE
        LET stale == tool.git_clone /\ tool.has_path /\ req.w.dirs[tool_name].exists
        IN  IF stale /\ ~inp.rm_ok
            THEN [w |-> req.w, ok |-> FALSE]
            ELSE
            LET w1 == IF stale
                      THEN [req.w EXCEPT !.dirs[tool_name] = Absent,
                                         !.removed = @ \cup {tool_name}]
                      ELSE req.w
                w2 == RunInstall(w1, tool_name, inp.cmd)
                is_success == IsSuccess(inp.cmd.exit0, Available(w2, tool_name))
            IN  IF is_success
                THEN LET v == GetLocalVersion(w2, tool_name, inp.vout)
                     IN  [w |-> SaveState(
                                  [v.w EXCEPT !.mem[tool_name] =
                                      [@ EXCEPT !.installed = TRUE,
                                                !.last_updated = IsoFormat(clock),
                                                !.local_version = v.version]]),
                          ok |-> TRUE]
                ELSE [w |-> w2, ok |-> FALSE]

\* install_tool, had it cleared the installed flag and saved when the install failed.
InstallTool_ResetsOnFailure(w, tool_name, inp, clock) ==
    IF tool_name \notin Tools
    THEN [w |-> w, ok |-> FALSE]
    ELSE
    LET tool == Registry[tool_name]
        req == CheckRequirements(w, tool)
    IN  IF ~req.ok
        THEN [w |-> req.w, ok |-> FALSE]
        ELSE IF Available(req.w, tool_name)
        THEN LET v == GetLocalVersion(req.w, tool_name, inp.vout)
             IN  [w |-> SaveState(
                          [v.w EXCEPT !.mem[tool_name] =
                              [@ EXCEPT !.installed = TRUE,
                                        !.local_version = v.version,
                                        !.last_updated =
                                            IF @ = EmptyStr THEN IsoFormat(clock) ELSE @]]),
                  ok |-> TRUE]
        ELSE
        LET stale == tool.git_clone /\ tool.has_path /\ req.w.dirs[tool_name].exists
        IN  IF stale /\ ~inp.rm_ok
            THEN [w |-> req.w, ok |-> FALSE]
            ELSE
            LET w1 == IF stale
                      THEN [req.w EXCEPT !.dirs[tool_name] = Absent,
                                         !.removed = @ \cup {tool_name}]
                      ELSE req.w
                w2 == RunInstall(w1, tool_name, inp.cmd)
                is_success == IsSuccess(inp.cmd.exit0, Available(w2, tool_name))
            IN  IF is_success
                THEN LET v == GetLocalVersion(w2, tool_name, inp.vout)
                     IN  [w |-> SaveState(
                                  [v.w EXCEPT !.mem[tool_name] =
                                      [@ EXCEPT !.installed = TRUE,
                                                !.last_updated = IsoFormat(clock),
                                                !.local_version = v.version]]),
                          ok |-> TRUE]
                ELSE [w |-> SaveState([w2 EXCEPT !.mem[tool_name].installed = FALSE]),
                      ok |-> FALSE]

\* install_tool, had it removed an existing install directory of any tool, clone-based or not.
InstallTool_CleansAnyTool(w, tool_name, inp, clock) ==
    IF tool_name \notin Tools
    THEN [w |-> w, ok |-> FALSE]
    ELSE
    LET tool == Registry[tool_name]
        req == CheckRequirements(w, tool)
    IN  IF ~req.ok
        THEN [w |-> req.w, ok |-> FALSE]
        ELSE IF Available(req.w, tool_name)
        THEN LET v == GetLocalVersion(req.w, tool_name, inp.vout)
             IN  [w |-> SaveState(
                          [v.w EXCEPT !.mem[tool_name] =
                              [@ EXCEPT !.installed = TRUE,
                                        !.local_version = v.version,
                                        !.last_updated =
                                            IF @ = EmptyStr THEN IsoFormat(clock) ELSE @]]),
                  ok |-> TRUE]
        ELSE
        LET stale == tool.has_path /\ req.w.dirs[tool_name].exists
        IN  IF stale /\ ~inp.rm_ok
            THEN [w |-> req.w, ok |-> FALSE]
            ELSE
            LET w1 == IF stale
                      THEN [req.w EXCEPT !.dirs[tool_name] = Absent,
                                         !.removed = @ \cup {tool_name}]
                      ELSE req.w
                w2 == RunInstall(w1, tool_name, inp.cmd)
                is_success == IsSuccess(inp.cmd.exit0, Available(w2, tool_name))
            IN  IF is_success
                THEN LET v == GetLocalVersion(w2, tool_name, inp.vout)
                     IN  [w |-> SaveState(
                                  [v.w EXCEPT !.mem[tool_name] =
                                      [@ EXCEPT !.installed = TRUE,
                                                !.last_updated = IsoFormat(clock),
                                                !.local_version = v.version]]),
                          ok |-> TRUE]
                ELSE [w |-> w2, ok |-> FALSE]

InstallTool(w, tool_name, inp, clock) ==
    IF tool_name \notin Tools
    THEN [w |-> w, ok |-> FALSE]
    ELSE
    LET tool == Registry[tool_name]
        req == CheckRequirements(w, tool)
    IN  IF ~req.ok
        THEN [w |-> req.w, ok |-> FALSE]
        ELSE IF Available(req.w, tool_name)
        THEN LET v == GetLocalVersion(req.w, tool_name, inp.vout)
             IN  [w |-> SaveState(
                          [v.w EXCEPT !.mem[tool_name] =
                              [@ EXCEPT !.installed = TRUE,
                                        !.local_version = v.version,
                                        !.last_updated =
                                            IF @ = EmptyStr THEN IsoFormat(clock) ELSE @]]),
                  ok |-> TRUE]
        ELSE
        LET stale == tool.git_clone /\ tool.has_path /\ req.w.dirs[tool_name].exists
        IN  IF stale /\ ~inp.rm_ok
            THEN [w |-> req.w, ok |-> FALSE]
            ELSE
            LET w1 == IF stale
                      THEN [req.w EXCEPT !.dirs[tool_name] = Absent,
                                         !.removed = @ \cup {tool_name}]
                      ELSE req.w
                w2 == RunInstall(w1, tool_name, inp.cmd)
                is_success == IsSuccess(inp.cmd.exit0, Available(w2, tool_name))
            IN  IF is_success
                THEN LET v == GetLocalVersion(w2, tool_name, inp.vout)
                     IN  [w |-> SaveState(
                                  [v.w EXCEPT !.mem[tool_name] =
                                      [@ EXCEPT !.installed = TRUE,
                                                !.last_updated = IsoFormat(clock),
                                                !.local_version = v.version]]),
                          ok |-> TRUE]
                ELSE [w |-> w2, ok |-> FALSE]

\* update_tool, had it decided on the cached installed flag instead of the prober.
UpdateTool_TrustsFlag(w, tool_name, inp, clock) ==
    IF tool_name \notin Tools
    THEN [w |-> w, ok |-> FALSE]
    ELSE IF ~w.mem[tool_name].installed
    THEN InstallTool(SaveState([w EXCEPT !.mem[tool_name].installed = FALSE]),
                     tool_name, inp.install, clock)
    ELSE
    LET w1 == [w EXCEPT !.mem[tool_name].installed = TRUE]
        chk == CheckForUpdates(w1, tool_name, inp.resp)
    IN  IF ~chk.needs_update
        THEN [w |-> chk.w, ok |-> TRUE]
        ELSE LET w2 == RunCommand(chk.w, <<"update", tool_name>>)
             IN  IF inp.upd_ok
                 THEN [w |-> SaveState(
                              [w2 EXCEPT !.mem[tool_name] =
                                  [@ EXCEPT !.local_version = chk.latest_version,
                                            !.latest_version = chk.latest_version,
                                            !.last_updated = IsoFormat(clock)]]),
                       ok |-> TRUE]
                 ELSE [w |-> w2, ok |-> FALSE]

\* update_tool, had it written the state file before rejecting an unknown key.
UpdateTool_SavesFirst(w, tool_name, inp, clock) ==
    IF tool_name \notin Tools
    THEN [w |-> SaveState(w), ok |-> FALSE]
    ELSE IF ~Available(w, tool_name)
    THEN InstallTool(SaveState([w EXCEPT !.mem[tool_name].installed = FALSE]),
                     tool_name, inp.install, clock)
    ELSE
    LET w1 == [w EXCEPT !.mem[tool_name].installed = TRUE]
        chk == CheckForUpdates(w1, tool_name, inp.resp)
    IN  IF ~chk.needs_update
        THEN [w |-> chk.w, ok |-> TRUE]
        ELSE LET w2 == RunCommand(chk.w, <<"update", tool_name>>)
             IN  IF inp.upd_ok
                 THEN [w |-> SaveState(
                              [w2 EXCEPT !.mem[tool_name] =
                                  [@ EXCEPT !.local_version = chk.latest_version,
                                            !.latest_version = chk.latest_version,
                                            !.last_updated = IsoFormat(clock)]]),
                       ok |-> TRUE]
                 ELSE [w |-> w2, ok |-> FALSE]

\* update_tool, had it run the update command whatever check_for_updates decided.
UpdateTool_AlwaysRuns(w, tool_name, inp, clock) ==
    IF tool_name \notin Tools
    THEN [w |-> w, ok |-> FALSE]
    ELSE IF ~Available(w, tool_name)
    THEN InstallTool(SaveState([w EXCEPT !.mem[tool_name].installed = FALSE]),
                     tool_name, inp.install, clock)
    ELSE
    LET w1 == [w EXCEPT !.mem[tool_name].installed = TRUE]
        chk == CheckForUpdates(w1, tool_name, inp.resp)
    IN  IF FALSE
        THEN [w |-> chk.w, ok |-> TRUE]
        ELSE LET w2 == RunCommand(chk.w, <<"update", tool_name>>)
             IN  IF inp.upd_ok
                 THEN [w |-> SaveState(
                              [w2 EXCEPT !.mem[tool_name] =
                                  [@ EXCEPT !.local_version = chk.latest_version,
                                            !.latest_version = chk.latest_version,
                                            !.last_updated = IsoFormat(clock)]]),
                       ok |-> TRUE]
                 ELSE [w |-> w2, ok |-> FALSE]

\* update_tool, had it left last_updated alone after a successful update command.
UpdateTool_KeepsTimestamp(w, tool_name, inp, clock) ==
    IF tool_name \notin Tools
    THEN [w |-> w, ok |-> FALSE]
    ELSE IF ~Available(w, tool_name)
    THEN InstallTool(SaveState([w EXCEPT !.mem[tool_name].installed = FALSE]),
                     tool_name, inp.install, clock)
    ELSE
    LET w1 == [w EXCEPT !.mem[tool_name].installed = TRUE]
        chk == CheckForUpdates(w1, tool_name, inp.resp)
    IN  IF ~chk.needs_update
        THEN [w |-> chk.w, ok |-> TRUE]
        ELSE LET w2 == RunCommand(chk.w, <<"update", tool_name>>)
             IN  IF inp.upd_ok
                 THEN [w |-> SaveState(
                              [w2 EXCEPT !.mem[tool_name] =
                                  [@ EXCEPT !.local_version = chk.latest_version,
                                            !.latest_version = chk.latest_version]]),
                       ok |-> TRUE]
                 ELSE [w |-> w2, ok |-> FALSE]

UpdateTool(w, tool_name, inp, clock) ==
    IF tool_name \notin Tools
    THEN [w |-> w, ok |-> FALSE]
    ELSE IF ~Available(w, tool_name)
    THEN InstallTool(SaveState([w EXCEPT !.mem[tool_name].installed = FALSE]),
                     tool_name, inp.install, clock)
    ELSE
    LET w1 == [w EXCEPT !.mem[tool_name].installed = TRUE]
        chk == CheckForUpdates(w1, tool_name, inp.resp)
    IN  IF ~chk.needs_update
        THEN [w |-> chk.w, ok |-> TRUE]
        ELSE LET w2 == RunCommand(chk.w, <<"update", tool_name>>)
             IN  IF inp.upd_ok
                 THEN [w |-> SaveState(
                              [w2 EXCEPT !.mem[tool_name] =
                                  [@ EXCEPT !.local_version = chk.latest_version,
                                            !.latest_version = chk.latest_version,
                                            !.last_updated = IsoFormat(clock)]]),
                       ok |-> TRUE]
                 ELSE [w |-> w2, ok |-> FALSE]

RECURSIVE CheckAllFrom_InstalledOnly(_, _, _, _)
\* The loop of check_all_updates, had it skipped the tools not marked installed.
CheckAllFrom_InstalledOnly(w, oracle, i, updates_available) ==
    IF i > Len(ToolOrder)
    THEN [w |-> w, updates_available |-> updates_available]
    ELSE LET tool_name == ToolOrder[i]
             chk == CheckForUpdates(w, tool_name, oracle[tool_name])
         IN  IF ~w.mem[tool_name].installed
             THEN CheckAllFrom_InstalledOnly(w, oracle, i + 1, updates_available)
             ELSE CheckAllFrom_InstalledOnly(chk.w, oracle, i + 1,
                     IF chk.needs_update
                     THEN Append(updates_available,
                                 [name |-> Registry[tool_name].name,
                                  tool_key |-> tool_name,
                                  current |-> w.mem[tool_name].local_version,
                                  latest |-> chk.latest_version,
                                  info |-> chk.note])
                     ELSE updates_available)

RECURSIVE CheckAllFrom(_, _, _, _)
\* The loop of check_all_updates from tool i on; oracle[t] is what the requests
\* for tool t meet.
CheckAllFrom(w, oracle, i, updates_available) ==
    IF i > Len(ToolOrder)
    THEN [w |-> w, updates_available |-> updates_available]
    ELSE LET tool_name == ToolOrder[i]
             chk == CheckForUpdates(w, tool_name, oracle[tool_name])
         IN  CheckAllFrom(chk.w, oracle, i + 1,
                 IF chk.needs_update
                 THEN Append(updates_available,
                             [name |-> Registry[tool_name].name,
                              tool_key |-> tool_name,
                              current |-> w.mem[tool_name].local_version,
                              latest |-> chk.latest_version,
                              info |-> chk.note])
                 ELSE updates_available)

CheckAllUpdates(w, oracle) == CheckAllFrom(w, oracle, 1, <<>>)

----------------------------------------------------------------------------
(* Execution & Finding Extractor *)

\* sub in s
Contains(s, sub) ==
    \E i \in 1..(Len(s) - Len(sub) + 1) : SubSeq(s, i, i + Len(sub) - 1) = sub

High == <<"H", "I", "G", "H">>

Medium == <<"M", "E", "D", "I", "U", "M">>

SqlInjection == <<"S", "Q", "L", " ", "I", "n", "j", "e", "c", "t", "i", "o", "n">>

\* \[([^\]]+)\] matched at i: the index after the match, 0 if it does not match.
BracketEnd(s, i) ==
    IF i > Len(s) \/ s[i] # "["
    THEN 0
    ELSE LET j == RunEndNot(s, i + 1, {"]"})
         IN  IF j = i + 1 \/ j > Len(s) THEN 0 ELSE j + 1

\* \[([^\]]+)\]\s*\[([^\]]+)\]\s*\[([^\]]+)\] matched at i: the three groups and
\* the index after the match (0 if it does not match).
BracketTriple(s, i) ==
    LET e1 == BracketEnd(s, i)
        b2 == IF e1 = 0 THEN 0 ELSE RunEnd(s, e1, Whitespace)
        e2 == IF e1 = 0 THEN 0 ELSE BracketEnd(s, b2)
        b3 == IF e2 = 0 THEN 0 ELSE RunEnd(s, e2, Whitespace)
        e3 == IF e2 = 0 THEN 0 ELSE BracketEnd(s, b3)
    IN  IF e3 = 0
        THEN [end |-> 0, template_id |-> EmptyStr, protocol |-> EmptyStr, severity |-> EmptyStr]
        ELSE [end |-> e3,
              template_id |-> SubSeq(s, i + 1, e1 - 2),
              protocol |-> SubSeq(s, b2 + 1, e2 - 2),
              severity |-> SubSeq(s, b3 + 1, e3 - 2)]

RECURSIVE NucleiFindings(_, _)
\* re.findall of the bracketed triple from index i on, one finding per match.
NucleiFindings(s, i) ==
    IF i > Len(s)
    THEN <<>>
    ELSE LET m == BracketTriple(s, i)
         IN  IF m.end = 0
             THEN NucleiFindings(s, i + 1)
             ELSE <<[severity |-> m.severity, id |-> m.template_id,
                     protocol |-> m.protocol, detail |-> EmptyStr]>>
                  \o NucleiFindings(s, m.end)

XssIndicators ==
    {<<"v", "u", "l", "n", "e", "r", "a", "b", "l", "e">>,
     <<"x", "s", "s", " ", "f", "o", "u", "n", "d">>,
     <<"p", "o", "s", "s", "i", "b", "l", "e", " ", "x", "s", "s">>,
     <<"c", "o", "n", "f", "i", "r", "m", "e", "d", " ", "x", "s", "s">>,
     <<"p", "a", "y", "l", "o", "a", "d", " ", "w", "a", "s", " ", "s", "u", "c", "c", "e", "s", "s", "f", "u", "l">>,
     <<"p", "a", "y", "l", "o", "a", "d", "s", " ", "w", "e", "r", "e", " ", "s", "u", "c", "c", "e", "s", "s", "f", "u", "l">>}

\* _extract_findings, had it searched the output as printed, without lower().
ExtractFindings_CaseSensitive(tool_name, output) ==
    IF tool_name = "nuclei"
    THEN NucleiFindings(output, 1)
    ELSE IF tool_name = "sqlmap"
    THEN (IF Contains(output, <<"i", "s", " ", "v", "u", "l", "n", "e", "r", "a", "b", "l", "e">>)
          THEN <<[severity |-> High, id |-> SqlInjection, protocol |-> EmptyStr,
                  detail |-> <<"S", "Q", "L", " ", "I", "n", "j", "e", "c", "t", "i", "o", "n", " ", "v", "u", "l", "n", "e", "r", "a", "b", "i", "l", "i", "t", "y", " ", "f", "o", "u", "n", "d">>]>>
          ELSE <<>>)
         \o
         (IF Contains(output, <<"p", "a", "r", "a", "m", "e", "t", "e", "r">>) /\ Contains(output, <<"i", "n", "j", "e", "c", "t", "a", "b", "l", "e">>)
          THEN <<[severity |-> High, id |-> SqlInjection, protocol |-> EmptyStr,
                  detail |-> <<"I", "n", "j", "e", "c", "t", "a", "b", "l", "e", " ", "p", "a", "r", "a", "m", "e", "t", "e", "r", " ", "f", "o", "u", "n", "d">>]>>
          ELSE <<>>)
    ELSE IF tool_name = "xsstrike"
    THEN IF \E indicator \in XssIndicators : Contains(output, indicator)
         THEN <<[severity |-> Medium, id |-> <<"X", "S", "S">>, protocol |-> EmptyStr,
                 detail |-> <<"X", "S", "S", " ", "v", "u", "l", "n", "e", "r", "a", "b", "i", "l", "i", "t", "y", " ", "f", "o", "u", "n", "d">>]>>
         ELSE <<>>
    ELSE <<>>

ExtractFindings(tool_name, output) ==
    IF tool_name = "nuclei"
    THEN NucleiFindings(output, 1)
    ELSE IF tool_name = "sqlmap"
    THEN (IF Contains(Lower(output), <<"i", "s", " ", "v", "u", "l", "n", "e", "r", "a", "b", "l", "e">>)
          THEN <<[severity |-> High, id |-> SqlInjection, protocol |-> EmptyStr,
                  detail |-> <<"S", "Q", "L", " ", "I", "n", "j", "e", "c", "t", "i", "o", "n", " ", "v", "u", "l", "n", "e", "r", "a", "b", "i", "l", "i", "t", "y", " ", "f", "o", "u", "n", "d">>]>>
          ELSE <<>>)
         \o
         (IF Contains(Lower(output), <<"p", "a", "r", "a", "m", "e", "t", "e", "r">>) /\ Contains(Lower(output), <<"i", "n", "j", "e", "c", "t", "a", "b", "l", "e">>)
          THEN <<[severity |-> High, id |-> SqlInjection, protocol |-> EmptyStr,
                  detail |-> <<"I", "n", "j", "e", "c", "t", "a", "b", "l", "e", " ", "p", "a", "r", "a", "m", "e", "t", "e", "r", " ", "f", "o", "u", "n", "d">>]>>
          ELSE <<>>)
    ELSE IF tool_name = "xsstrike"
    THEN IF \E indicator \in XssIndicators : Contains(Lower(output), indicator)
         THEN <<[severity |-> Medium, id |-> <<"X", "S", "S">>, protocol |-> EmptyStr,
                 detail |-> <<"X", "S", "S", " ", "v", "u", "l", "n", "e", "r", "a", "b", "i", "l", "i", "t", "y", " ", "f", "o", "u", "n", "d">>]>>
         ELSE <<>>
    ELSE <<>>

\* A ToolExecutionResult that reports a failure before or instead of a completed run.
FailedResult(tool_name, command, error) ==
    [tool_name |-> tool_name, command |-> command, success |-> FALSE,
     output |-> EmptyStr, error |-> error, findings |-> <<>>]

\* What the run command does: it exits (zero or not) having printed stdout, it
\* times out, or it cannot be launched.
RunOutcomes ==
    {[kind |-> "exit", rc0 |-> TRUE, stdout |-> <<"G", "E", "T", " ", "i", "d", " ", "i", "s", " ", "v", "u", "l", "n", "e", "r", "a", "b", "l", "e">>],
     [kind |-> "exit", rc0 |-> FALSE, stdout |-> <<"G", "E", "T", " ", "i", "d", " ", "i", "s", " ", "v", "u", "l", "n", "e", "r", "a", "b", "l", "e">>],
     [kind |-> "exit", rc0 |-> TRUE, stdout |-> <<"[", "c", "v", "e", "]", " ", "[", "h", "t", "t", "p", "]", " ", "[", "h", "i", "g", "h", "]">>],
     [kind |-> "exit", rc0 |-> FALSE, stdout |-> <<"[", "c", "v", "e", "]", " ", "[", "h", "t", "t", "p", "]", " ", "[", "h", "i", "g", "h", "]">>],
     [kind |-> "timeout", rc0 |-> FALSE, stdout |-> EmptyStr],
     [kind |-> "error", rc0 |-> FALSE, stdout |-> EmptyStr]}

\* Lines a tool prints: the phrases the extractor looks for, in lower and mixed
\* case, alone and inside longer lines, and lines it does not look for.
OutputLines ==
    {<<"i", "s", " ", "v", "u", "l", "n", "e", "r", "a", "b", "l", "e">>,
     <<"I", "s", " ", "V", "u", "l", "n", "e", "r", "a", "b", "l", "e">>,
     <<"p", "a", "r", "a", "m", "e", "t", "e", "r">>,
     <<"i", "n", "j", "e", "c", "t", "a", "b", "l", "e">>,
     <<"p", "a", "r", "a", "m", "e", "t", "e", "r", " ", "i", "d", " ", "a", "p", "p", "e", "a", "r", "s", " ", "i", "n", "j", "e", "c", "t", "a", "b", "l", "e">>,
     <<"o", "k">>,
     <<"[", "c", "v", "e", "]", " ", "[", "h", "t", "t", "p", "]", " ", "[", "h", "i", "g", "h", "]">>,
     <<"X", "S", "S", " ", "f", "o", "u", "n", "d">>}

\* What the extractor is given: nothing, one line, or two lines.
Outputs ==
    {EmptyStr} \cup OutputLines
    \cup {a \o <<"\n">> \o b : a \in OutputLines, b \in OutputLines}

\* The tool names the extractor is called with: the three it knows and another.
ExtractorTools == {"nuclei", "sqlmap", "xsstrike", "dirsearch"}

\* execute, had it extracted findings from stdout whatever the exit status.
Execute_AnyExit(w, tool_name, run) ==
    IF tool_name \notin Tools
    THEN [w |-> w, result |-> FailedResult(tool_name, "", "Unknown tool")]
    ELSE IF ~w.mem[tool_name].installed
    THEN [w |-> w, result |-> FailedResult(tool_name, "", "is not installed")]
    ELSE IF ~Available(w, tool_name)
    THEN [w |-> SaveState([w EXCEPT !.mem[tool_name].installed = FALSE]),
          result |-> FailedResult(tool_name, "", "installation is incomplete")]
    ELSE
    LET w1 == RunCommand(w, <<"run", tool_name>>)
    IN  IF run.kind = "exit"
        THEN [w |-> w1,
              result |->
                 [tool_name |-> tool_name, command |-> "run", success |-> run.rc0,
                  output |-> run.stdout, error |-> "stderr",
                  findings |-> ExtractFindings(tool_name, run.stdout)]]
        ELSE IF run.kind = "timeout"
        THEN [w |-> w1,
              result |-> FailedResult(tool_name, "run", "Execution timed out (10 minutes)")]
        ELSE [w |-> w1, result |-> FailedResult(tool_name, "run", "str(e)")]

\* execute, had it corrected a stale installed flag in memory only.
Execute_NoPersist(w, tool_name, run) ==
    IF tool_name \notin Tools
    THEN [w |-> w, result |-> FailedResult(tool_name, "", "Unknown tool")]
    ELSE IF ~w.mem[tool_name].installed
    THEN [w |-> w, result |-> FailedResult(tool_name, "", "is not installed")]
    ELSE IF ~Available(w, tool_name)
    THEN [w |-> [w EXCEPT !.mem[tool_name].installed = FALSE],
          result |-> FailedResult(tool_name, "", "installation is incomplete")]
    ELSE
    LET w1 == RunCommand(w, <<"run", tool_name>>)
    IN  IF run.kind = "exit"
        THEN [w |-> w1,
              result |->
                 [tool_name |-> tool_name, command |-> "run", success |-> run.rc0,
                  output |-> run.stdout, error |-> "stderr",
                  findings |-> ExtractFindings(tool_name,
                                  IF run.rc0 THEN run.stdout ELSE EmptyStr)]]
        ELSE IF run.kind = "timeout"
        THEN [w |-> w1,
              result |-> FailedResult(tool_name, "run", "Execution timed out (10 minutes)")]
        ELSE [w |-> w1, result |-> FailedResult(tool_name, "run", "str(e)")]

\* ToolExecutor.execute on the executor's engine, whose world is w.
Execute(w, tool_name, run) ==
    IF tool_name \notin Tools
    THEN [w |-> w, result |-> FailedResult(tool_name, "", "Unknown tool")]
    ELSE IF ~w.mem[tool_name].installed
    THEN [w |-> w, result |-> FailedResult(tool_name, "", "is not installed")]
    ELSE IF ~Available(w, tool_name)
    THEN [w |-> SaveState([w EXCEPT !.mem[tool_name].installed = FALSE]),
          result |-> FailedResult(tool_name, "", "installation is incomplete")]
    ELSE
    LET w1 == RunCommand(w, <<"run", tool_name>>)
    IN  IF run.kind = "exit"
        THEN [w |-> w1,
              result |->
                 [tool_name |-> tool_name, command |-> "run", success |-> run.rc0,
                  output |-> run.stdout, error |-> "stderr",
                  findings |-> ExtractFindings(tool_name,
                                  IF run.rc0 THEN run.stdout ELSE EmptyStr)]]
        ELSE IF run.kind = "timeout"
        THEN [w |-> w1,
              result |-> FailedResult(tool_name, "run", "Execution timed out (10 minutes)")]
        ELSE [w |-> w1, result |-> FailedResult(tool_name, "run", "str(e)")]


----------------------------------------------------------------------------
(* Strategy Selector *)

\* str.find(c) for a one-character c, counting from 0; -1 if c is not in s.
Find(s, c) ==
    IF \E i \in 1..Len(s) : s[i] = c
    THEN (CHOOSE i \in 1..Len(s) : s[i] = c /\ \A k \in 1..(i - 1) : s[k] # c) - 1
    ELSE -1

\* str.rfind(c) for a one-character c, counting from 0; -1 if c is not in s.
RFind(s, c) ==
    IF \E i \in 1..Len(s) : s[i] = c
    THEN (CHOOSE i \in 1..Len(s) : s[i] = c /\ \A k \in (i + 1)..Len(s) : s[k] # c) - 1
    ELSE -1

\* s[a:b] for 0 <= a and 0 <= b
Slice(s, a, b) == SubSeq(s, a + 1, IF b > Len(s) THEN Len(s) ELSE b)

\* The JSON texts among the slices the selector parses, with the dicts json.loads
\* gives for them.
JsonDocuments ==
    {[text |-> <<"{", "\"", "r", "e", "c", "o", "m", "m", "e", "n", "d", "e", "d", "_", "t", "o", "o", "l", "s", "\"", ":", " ", "[", "]", "}">>,
      value |-> [recommended_tools |-> <<>>]],
     [text |-> <<"{", "\"", "t", "h", "o", "u", "g", "h", "t", "s", "\"", ":", " ", "\"", "a", "i", "\"", "}">>,
      value |-> [thoughts |-> <<"a", "i">>]]}

\* json.loads(s): the dict, or the exception it raises for anything that is not JSON.
JsonLoads(s) ==
    IF \E d \in JsonDocuments : d.text = s
    THEN [raises |-> FALSE, value |-> (CHOOSE d \in JsonDocuments : d.text = s).value]
    ELSE [raises |-> TRUE, value |-> [thoughts |-> EmptyStr]]

\* _rule_based_selection, had it looked for "login" in the target as given.
RuleBasedSelection_CaseSensitive(target) ==
    LET dirsearch == <<[order |-> 1, tool |-> "dirsearch",
                        reason |-> <<"H", "i", "d", "d", "e", "n", " ", "p", "a", "t", "h", " ", "d", "e", "t", "e", "c", "t", "i", "o", "n">>,
                        command |-> <<"p", "y", "t", "h", "o", "n", " ", "d", "i", "r", "s", "e", "a", "r", "c", "h", ".", "p", "y", " ", "-", "u", " ">> \o target]>>
        sqlmap == IF Contains(target, <<"?">>) \/ Contains(target, <<"l", "o", "g", "i", "n">>)
                  THEN <<[order |-> 2, tool |-> "sqlmap",
                          reason |-> <<"S", "Q", "L", " ", "I", "n", "j", "e", "c", "t", "i", "o", "n", " ", "t", "e", "s", "t", "i", "n", "g">>,
                          command |-> <<"p", "y", "t", "h", "o", "n", " ", "s", "q", "l", "m", "a", "p", ".", "p", "y", " ", "-", "u", " ">> \o target \o <<" ", "-", "-", "b", "a", "t", "c", "h">>]>>
                  ELSE <<>>
        xsstrike == <<[order |-> 3, tool |-> "xsstrike",
                       reason |-> <<"X", "S", "S", " ", "v", "u", "l", "n", "e", "r", "a", "b", "i", "l", "i", "t", "y", " ", "t", "e", "s", "t", "i", "n", "g">>,
                       command |-> <<"p", "y", "t", "h", "o", "n", " ", "x", "s", "s", "t", "r", "i", "k", "e", ".", "p", "y", " ", "-", "u", " ">> \o target]>>
    IN  [observation |-> <<"T", "a", "r", "g", "e", "t", " ", "U", "R", "L", ":", " ">> \o target,
         thoughts |-> <<"R", "u", "l", "e", "-", "b", "a", "s", "e", "d", " ", "a", "n", "a", "l", "y", "s", "i", "s", " ", "(", "N", "o", " ", "A", "I", ")">>,
         recommended_tools |-> dirsearch \o sqlmap \o xsstrike,
         scan_strategy |-> <<"P", "a", "t", "h", " ", "d", "i", "s", "c", "o", "v", "e", "r", "y", " ", "-", ">", " ", "S", "Q", "L", "i", " ", "-", ">", " ", "X", "S", "S">>,
         estimated_time |-> <<"A", "b", "o", "u", "t", " ", "1", "0", "-", "3", "0", " ", "m", "i", "n", "u", "t", "e", "s">>]

\* AIToolSelector._rule_based_selection(target, initial_info)
RuleBasedSelection(target) ==
    LET dirsearch == <<[order |-> 1, tool |-> "dirsearch",
                        reason |-> <<"H", "i", "d", "d", "e", "n", " ", "p", "a", "t", "h", " ", "d", "e", "t", "e", "c", "t", "i", "o", "n">>,
                        command |-> <<"p", "y", "t", "h", "o", "n", " ", "d", "i", "r", "s", "e", "a", "r", "c", "h", ".", "p", "y", " ", "-", "u", " ">> \o target]>>
        sqlmap == IF Contains(target, <<"?">>) \/ Contains(Lower(target), <<"l", "o", "g", "i", "n">>)
                  THEN <<[order |-> 2, tool |-> "sqlmap",
                          reason |-> <<"S", "Q", "L", " ", "I", "n", "j", "e", "c", "t", "i", "o", "n", " ", "t", "e", "s", "t", "i", "n", "g">>,
                          command |-> <<"p", "y", "t", "h", "o", "n", " ", "s", "q", "l", "m", "a", "p", ".", "p", "y", " ", "-", "u", " ">> \o target \o <<" ", "-", "-", "b", "a", "t", "c", "h">>]>>
                  ELSE <<>>
        xsstrike == <<[order |-> 3, tool |-> "xsstrike",
                       reason |-> <<"X", "S", "S", " ", "v", "u", "l", "n", "e", "r", "a", "b", "i", "l", "i", "t", "y", " ", "t", "e", "s", "t", "i", "n", "g">>,
                       command |-> <<"p", "y", "t", "h", "o", "n", " ", "x", "s", "s", "t", "r", "i", "k", "e", ".", "p", "y", " ", "-", "u", " ">> \o target]>>
    IN  [observation |-> <<"T", "a", "r", "g", "e", "t", " ", "U", "R", "L", ":", " ">> \o target,
         thoughts |-> <<"R", "u", "l", "e", "-", "b", "a", "s", "e", "d", " ", "a", "n", "a", "l", "y", "s", "i", "s", " ", "(", "N", "o", " ", "A", "I", ")">>,
         recommended_tools |-> dirsearch \o sqlmap \o xsstrike,
         scan_strategy |-> <<"P", "a", "t", "h", " ", "d", "i", "s", "c", "o", "v", "e", "r", "y", " ", "-", ">", " ", "S", "Q", "L", "i", " ", "-", ">", " ", "X", "S", "S">>,
         estimated_time |-> <<"A", "b", "o", "u", "t", " ", "1", "0", "-", "3", "0", " ", "m", "i", "n", "u", "t", "e", "s">>]

\* AIToolSelector.analyze_target(target) when the selector and its oracle are as
\* in oracle: no client; a client whose call raises; a client whose response has
\* no content block; a client whose response holds text.
AnalyzeTarget(target, oracle) ==
    IF ~oracle.client
    THEN RuleBasedSelection(target)
    ELSE IF oracle.raises \/ ~oracle.has_content
    THEN RuleBasedSelection(target)
    ELSE LET response_text == oracle.text
             json_start == Find(response_text, "{")
             json_end == RFind(response_text, "}") + 1
             parsed == JsonLoads(Slice(response_text, json_start, json_end))
         IN  IF json_start # -1 /\ ~parsed.raises
             THEN parsed.value
             ELSE RuleBasedSelection(target)

\* The targets the selector is asked about: with and without a query string, with
\* and without "login" in lower, upper and mixed case.
Targets ==
    {<<"h", "t", "t", "p", ":", "/", "/", "t", "/">>,
     <<"h", "t", "t", "p", ":", "/", "/", "t", "/", "?", "i", "d", "=", "1">>,
     <<"h", "t", "t", "p", ":", "/", "/", "t", "/", "l", "o", "g", "i", "n">>,
     <<"h", "t", "t", "p", ":", "/", "/", "t", "/", "L", "O", "G", "I", "N">>,
     <<"h", "t", "t", "p", ":", "/", "/", "t", "/", "L", "o", "g", "i", "n", "?", "u", "=", "1">>,
     <<"h", "t", "t", "p", ":", "/", "/", "t", "/", "l", "o", "g", "/", "i", "n">>}

\* What the oracle's response holds: no brace, an opening brace only, braces around
\* something that is not JSON, braces in the wrong order, two objects, an object
\* inside other text, an object alone.
ResponseTexts ==
    {<<"n", "o", " ", "p", "l", "a", "n">>,
     <<"{", "o", "o", "p", "s">>,
     <<"s", "e", "e", " ", "{", "x", "}">>,
     <<"}", " ", "t", "h", "e", "n", " ", "{">>,
     <<"{", "\"", "t", "h", "o", "u", "g", "h", "t", "s", "\"", ":", " ", "\"", "a", "i", "\"", "}", " ", "{", "}">>,
     <<"P", "l", "a", "n", ":", " ", "{", "\"", "r", "e", "c", "o", "m", "m", "e", "n", "d", "e", "d", "_", "t", "o", "o", "l", "s", "\"", ":", " ", "[", "]", "}", " ", "o", "k">>,
     <<"{", "\"", "t", "h", "o", "u", "g", "h", "t", "s", "\"", ":", " ", "\"", "a", "i", "\"", "}">>,
     EmptyStr}

\* The selectors and oracles analyze_target runs with.
SelectorOracles ==
    {[client |-> FALSE, raises |-> FALSE, has_content |-> FALSE, text |-> EmptyStr],
     [client |-> TRUE, raises |-> TRUE, has_content |-> FALSE, text |-> EmptyStr],
     [client |-> TRUE, raises |-> FALSE, has_content |-> FALSE, text |-> EmptyStr]}
    \cup {[client |-> TRUE, raises |-> FALSE, has_content |-> TRUE, text |-> text] :
             text \in ResponseTexts}

----------------------------------------------------------------------------
(* The answers an operation draws from the environment. An answer the call never
   asks for is fixed, so that every choice below is a different run of the code. *)

NoInstallOutcome == [exit0 |-> FALSE, dir |-> Absent, on_path |-> {}]

NoVersionOutput == [ok |-> FALSE, stdout |-> EmptyStr, stderr |-> EmptyStr]

NoInstallInput == [cmd |-> NoInstallOutcome, rm_ok |-> TRUE, vout |-> NoVersionOutput]

\* What one install_tool(key) call in world w may meet: whether rmtree of a stale
\* directory succeeds, what the install command does, what the version command
\* prints.
InstallInputs(w, key) ==
    IF key \notin Tools
    THEN {NoInstallInput}
    ELSE IF ~CheckRequirements(w, Registry[key]).ok
    THEN {NoInstallInput}
    ELSE IF Available(w, key)
    THEN {[NoInstallInput EXCEPT !.vout = v] : v \in VersionOutputs}
    ELSE (IF Registry[key].git_clone /\ w.dirs[key].exists
          THEN {[NoInstallInput EXCEPT !.rm_ok = FALSE]}
          ELSE {})
         \cup
         {[cmd |-> o, rm_ok |-> TRUE, vout |-> v] :
             o \in InstallOutcomes(key), v \in VersionOutputs}

NoOracleScenario == [rel |-> ReleaseStatus(403), commits |-> NoCommits]

\* What one update_tool(key) call in world w may meet: the oracle's answer and
\* whether the update command succeeds (a "git pull" cannot without git on PATH),
\* or, when it delegates, what install_tool meets.
UpdateInputs(w, key) ==
    IF key \notin Tools
    THEN {[resp |-> NoOracleScenario, upd_ok |-> FALSE, install |-> NoInstallInput]}
    ELSE IF ~Available(w, key)
    THEN {[resp |-> NoOracleScenario, upd_ok |-> FALSE, install |-> i] :
             i \in InstallInputs(w, key)}
    ELSE {[resp |-> o, upd_ok |-> u, install |-> NoInstallInput] :
             o \in OracleScenarios,
             u \in (IF Registry[key].update_uses_git /\ "git" \notin w.path
                    THEN {FALSE}
                    ELSE BOOLEAN)}

(* Update-all: the loop of the Lifecycle Engine that draws an answer per tool. *)

RECURSIVE UpdateAllFrom_StopsOnFailure(_, _, _, _)
\* The loop of update_all_tools, had it ended at the first update_tool that failed.
UpdateAllFrom_StopsOnFailure(w, clock, i, results) ==
    IF i > Len(ToolOrder)
    THEN {[w |-> w, results |-> results]}
    ELSE LET tool_name == ToolOrder[i]
         IN  IF w.mem[tool_name].installed
             THEN UNION {LET r == UpdateTool(w, tool_name, inp, clock)
                         IN  IF r.ok
                             THEN UpdateAllFrom_StopsOnFailure(r.w, clock, i + 1,
                                           Append(results, <<tool_name, r.ok>>))
                             ELSE {[w |-> r.w,
                                    results |-> Append(results, <<tool_name, r.ok>>)]} :
                            inp \in UpdateInputs(w, tool_name)}
             ELSE UpdateAllFrom_StopsOnFailure(w, clock, i + 1, results)

RECURSIVE UpdateAllFrom(_, _, _, _)
\* The loop of update_all_tools from tool i on, in world w at time clock: every
\* way it can end, given what each update_tool call may meet. results lists the
\* (tool, success) pairs in insertion order.
UpdateAllFrom(w, clock, i, results) ==
    IF i > Len(ToolOrder)
    THEN {[w |-> w, results |-> results]}
    ELSE LET tool_name == ToolOrder[i]
         IN  IF w.mem[tool_name].installed
             THEN UNION {LET r == UpdateTool(w, tool_name, inp, clock)
                         IN  UpdateAllFrom(r.w, clock, i + 1,
                                           Append(results, <<tool_name, r.ok>>)) :
                            inp \in UpdateInputs(w, tool_name)}
             ELSE UpdateAllFrom(w, clock, i + 1, results)

UpdateAllTools(w, clock) == UpdateAllFrom(w, clock, 1, <<>>)

NoRunOutcome == [kind |-> "error", rc0 |-> FALSE, stdout |-> EmptyStr]

\* What one execute(key) call in world w may meet: what the run command does.
RunInputs(w, key) ==
    IF key \in Tools /\ w.mem[key].installed /\ Available(w, key)
    THEN RunOutcomes
    ELSE {NoRunOutcome}

----------------------------------------------------------------------------
(* State machine *)

\* No operation is returning.
Idle ==
    [op |-> "none", engine |-> "", key |-> "", ok |-> FALSE, cmds |-> <<>>,
     reqs |-> <<>>, saves |-> 0, removed |-> {}, exit0 |-> FALSE,
     oracle |-> <<>>, ret |-> <<>>]

\* The record of an operation that ended in world w.
Returned(op, e, key, ok, w, oracle, ret) ==
    [op |-> op, engine |-> e, key |-> key, ok |-> ok, cmds |-> w.cmds,
     reqs |-> w.reqs, saves |-> w.saves, removed |-> w.removed, exit0 |-> w.exit0,
     oracle |-> oracle, ret |-> ret]

\* The world w becomes the state; engine e's tools are w.mem.
Commit(e, w) ==
    /\ mem' = [mem EXCEPT ![e] = w.mem]
    /\ file' = w.file
    /\ dirs' = w.dirs
    /\ path' = w.path

Defaults == [t \in Tools |-> DefaultState]

Init ==
    /\ mem = [e \in Engines |-> Defaults]
    /\ file = NoFile
    /\ dirs = [t \in Tools |-> Absent]
    /\ path = {}
    /\ now = 1
    /\ focus \in Tools
    /\ last = Idle

\* Something outside the engine creates, fills, empties or deletes an install directory.
EnvDir(t, d) ==
    /\ last = Idle
    /\ t = focus
    /\ Registry[t].git_clone
    /\ d # dirs[t]
    /\ dirs' = [dirs EXCEPT ![t] = d]
    /\ UNCHANGED <<mem, file, path, now, focus, last>>

\* Something outside the engine creates, fills or deletes the install directory of
\* a tool that is not clone-based (the prober does not look at it).
EnvOtherDir(t, d) ==
    /\ last = Idle
    /\ t = focus
    /\ ~Registry[t].git_clone
    /\ d # dirs[t]
    /\ dirs' = [dirs EXCEPT ![t] = d]
    /\ UNCHANGED <<mem, file, path, now, focus, last>>

\* The commands the installation of tool t depends on.
FocusCommands(t) ==
    {"git"} \cup (IF Registry[t].requires_go THEN {"go"} ELSE {})
            \cup (IF Registry[t].git_clone THEN {} ELSE ToolCommandAliases(t))

\* A command appears on or disappears from PATH.
EnvPath(c) ==
    /\ last = Idle
    /\ c \in FocusCommands(focus)
    /\ path' = IF c \in path THEN path \ {c} ELSE path \cup {c}
    /\ UNCHANGED <<mem, file, dirs, now, focus, last>>

\* Time passes.
Tick ==
    /\ last = Idle
    /\ now < MaxClock
    /\ now' = now + 1
    /\ UNCHANGED <<mem, file, dirs, path, focus, last>>

\* The files the state file can be turned into from outside: deleted, made
\* unparseable, or one tool's entry replaced by a value that is not an object.
TamperedFiles ==
    {NoFile, CorruptFile}
    \cup (IF file.kind = "json"
          THEN {[file EXCEPT !.entries[i] = MalformedEntry(@.key)] :
                    i \in 1..Len(file.entries)}
          ELSE {})

EnvFile(f) ==
    /\ last = Idle
    /\ f # file
    /\ file' = f
    /\ UNCHANGED <<mem, dirs, path, now, focus, last>>

\* The caller has the result of the operation; the next operation can be called.
Return ==
    /\ last # Idle
    /\ last' = Idle
    /\ UNCHANGED <<mem, file, dirs, path, now, focus>>

\* ToolUpdater.__init__ of engine e (a new process, or a new ToolExecutor).
Startup(e) ==
    /\ last = Idle
    /\ LET w == SyncInstalledState([World(e) EXCEPT !.mem = LoadState(Defaults, file)])
       IN  /\ Commit(e, w)
           /\ last' = Returned("startup", e, "", TRUE, w, <<>>, <<>>)
    /\ UNCHANGED <<now, focus>>

\* ToolUpdater.install_tool(key) on engine e. The record keeps what the call met.
Install(e, key) ==
    /\ last = Idle
    /\ \E inp \in InstallInputs(World(e), key) :
          LET r == InstallTool(World(e), key, inp, now)
          IN  /\ Commit(e, r.w)
              /\ last' = Returned("install", e, key, r.ok, r.w, <<inp>>, <<>>)
    /\ UNCHANGED <<now, focus>>

\* ToolUpdater.update_tool(key) on engine e. The record keeps what the call met.
Update(e, key) ==
    /\ last = Idle
    /\ \E inp \in UpdateInputs(World(e), key) :
          LET r == UpdateTool(World(e), key, inp, now)
          IN  /\ Commit(e, r.w)
              /\ last' = Returned("update", e, key, r.ok, r.w, <<inp>>, <<>>)
    /\ UNCHANGED <<now, focus>>

UpdateAll(e) ==
    /\ last = Idle
    /\ \E r \in UpdateAllTools(World(e), now) :
          /\ Commit(e, r.w)
          /\ last' = Returned("update_all", e, "", TRUE, r.w, <<>>, r.results)
    /\ UNCHANGED <<now, focus>>

\* What the oracle returned for each tool under the scenarios sc.
OracleAnswers(sc) ==
    [t \in Tools |-> GetLatestRelease(Registry[t].repo, sc[t]).result]

CheckAll(e) ==
    /\ last = Idle
    /\ \E sc \in [Tools -> OracleScenarios] :
          LET r == CheckAllUpdates(World(e), sc)
          IN  /\ Commit(e, r.w)
              /\ last' = Returned("check_all", e, "", TRUE, r.w, OracleAnswers(sc),
                                  r.updates_available)
    /\ UNCHANGED <<now, focus>>

Exec(e, key) ==
    /\ last = Idle
    /\ \E run \in RunInputs(World(e), key) :
          LET r == Execute(World(e), key, run)
          IN  /\ Commit(e, r.w)
              /\ last' = Returned("execute", e, key, r.result.success, r.w, <<>>, r.result)
    /\ UNCHANGED <<now, focus>>

\* The plans a scan is given: the tool keys of the plan's entries, in order. The
\* oracle's plan may name any key, in any order, and none.
ScanPlans ==
    {<<>>, <<"sqlmap">>, <<"sqlmap", "nuclei">>, <<"nuclei", "sqlmap">>,
     <<UnknownKey, "sqlmap">>}

RECURSIVE ScanFrom(_, _, _, _, _)
\* The loop of the scan from plan entry i on: updater_tools are the tools of the CLI's
\* ToolUpdater, w the world of the executor's own. Yields every outcome, one per
\* choice of what the run commands do; results has, per plan entry, the key,
\* whether execute was called, and whether it succeeded.
ScanFrom(w, updater_tools, plan, i, results) ==
    IF i > Len(plan)
    THEN {[w |-> w, results |-> results]}
    ELSE LET tool_name == plan[i]
         IN  IF tool_name \in Tools /\ updater_tools[tool_name].installed
             THEN UNION {LET r == Execute(w, tool_name, run)
                         IN  ScanFrom(r.w, updater_tools, plan, i + 1,
                                      Append(results, <<tool_name, TRUE, r.result.success>>)) :
                            run \in RunInputs(w, tool_name)}
             ELSE ScanFrom(w, updater_tools, plan, i + 1,
                           Append(results, <<tool_name, FALSE, FALSE>>))

\* The scan command with the CLI's tools updater_tools, in world w, the selector
\* returning plan and the user answering y or not: AIToolSelector() and
\* ToolExecutor() each construct a ToolUpdater of their own.
ScanTarget(w, updater_tools, plan, answer_y) ==
    LET selector == SyncInstalledState([w EXCEPT !.mem = LoadState(Defaults, w.file)])
        executor == SyncInstalledState(
                        [selector EXCEPT !.mem = LoadState(Defaults, selector.file)])
    IN  IF answer_y
        THEN ScanFrom(executor, updater_tools, plan, 1, <<>>)
        ELSE {[w |-> [selector EXCEPT !.mem = w.mem], results |-> <<>>]}

\* The scan command of the CLI, whose ToolUpdater is engine "cli"; the
\* ToolExecutor's is engine "exec". The record keeps the plan and the answer,
\* and what became of each plan entry.
Scan(plan, answer_y) ==
    /\ last = Idle
    /\ \E r \in ScanTarget(World("exec"), mem["cli"], plan, answer_y) :
          /\ Commit("exec", r.w)
          /\ last' = Returned("scan", "cli", "", answer_y, r.w, <<plan>>, r.results)
    /\ UNCHANGED <<now, focus>>

\* GitHubChecker.get_latest_release(repo of tool t), meeting resp. The record
\* keeps the requests sent, the dict returned and what the requests met.
Latest(t, resp) ==
    /\ last = Idle
    /\ LET o == GetLatestRelease(Registry[t].repo, resp)
       IN  last' = [Idle EXCEPT !.op = "latest", !.key = t, !.ok = o.result.nonempty,
                                !.reqs = o.reqs, !.oracle = <<o.result>>, !.ret = resp]
    /\ UNCHANGED <<mem, file, dirs, path, now, focus>>

\* ToolExecutor._extract_findings(tool_name, output). The record keeps the
\* output given and the findings returned.
Extract(tool_name, output) ==
    /\ last = Idle
    /\ last' = [Idle EXCEPT !.op = "extract", !.key = tool_name,
                            !.ret = [output |-> output,
                                     findings |-> ExtractFindings(tool_name, output)]]
    /\ UNCHANGED <<mem, file, dirs, path, now, focus>>

\* ToolUpdater._get_local_version when the version command ends with vout. The
\* record keeps vout and the version returned.
Resolve(vout) ==
    /\ last = Idle
    /\ last' = [Idle EXCEPT !.op = "resolve", !.ok = vout.ok,
                            !.ret = [vout |-> vout, version |-> ResolveVersion(vout)]]
    /\ UNCHANGED <<mem, file, dirs, path, now, focus>>

\* ToolUpdater._is_tool_available(tool_name, tool) on a descriptor, with its
\* install directory in state d and the commands p on PATH. The record keeps
\* what it was run on and the answer.
Probe(desc, d, p) ==
    /\ last = Idle
    /\ last' = [Idle EXCEPT !.op = "probe", !.key = desc.key,
                            !.ok = IsToolAvailable(desc.key, desc.tool,
                                                   [k \in {desc.key} |-> d], p),
                            !.ret = [tool |-> desc.tool, dir |-> d, path |-> p]]
    /\ UNCHANGED <<mem, file, dirs, path, now, focus>>

\* AIToolSelector.analyze_target(target). The record keeps the target, the oracle
\* it ran with and the plan returned.
Analyze(target, oracle) ==
    /\ last = Idle
    /\ last' = [Idle EXCEPT !.op = "analyze",
                            !.ret = [target |-> target, oracle |-> oracle,
                                     plan |-> AnalyzeTarget(target, oracle)]]
    /\ UNCHANGED <<mem, file, dirs, path, now, focus>>

\* The engine instances that act in Spec: one process at a time.
MainEngines == {"cli"}

\* The environment's steps on the filesystem and PATH.
EnvNext ==
    \/ \E t \in Tools : \E d \in DirStates(t) : EnvDir(t, d)
    \/ \E c \in Commands : EnvPath(c)

\* The operations of an engine instance.
EngineNext ==
    \/ \E e \in MainEngines : Startup(e)
    \/ \E e \in MainEngines : \E key \in Keys : Install(e, key)
    \/ \E e \in MainEngines : \E key \in Keys : Update(e, key)
    \/ \E e \in MainEngines : UpdateAll(e)
    \/ \E e \in MainEngines : CheckAll(e)
    \/ \E e \in MainEngines : \E key \in Keys : Exec(e, key)

Next ==
    \/ EnvNext
    \/ EngineNext
    \/ Return

\* The lifecycle of one engine instance in a changing filesystem and PATH, with
\* the clock standing still and the state file written by the engine alone.
Spec == Init /\ [][Next]_vars

NextOracle ==
    \/ EnvNext
    \/ \E t \in Tools : \E resp \in OracleResponses : Latest(t, resp)
    \/ Return

\* Calls of the remote version oracle, against everything the API can answer.
SpecOracle == Init /\ [][NextOracle]_vars

NextExtract ==
    \/ EnvNext
    \/ \E tool_name \in ExtractorTools : \E output \in Outputs : Extract(tool_name, output)
    \/ Return

\* Calls of the finding extractor, on everything in Outputs.
SpecExtract == Init /\ [][NextExtract]_vars

NextResolver ==
    \/ EnvNext
    \/ \E vout \in ResolverOutputs : Resolve(vout)
    \/ Return

\* Calls of the version resolver, on everything in ResolverOutputs.
SpecResolver == Init /\ [][NextResolver]_vars

NextProber ==
    \/ EnvNext
    \/ \E desc \in Descriptors : \E d \in ProbedDirs(desc.key) :
          \E p \in ProbedPaths(desc) : Probe(desc, d, p)
    \/ Return

\* Calls of the prober, on every descriptor, directory and PATH above.
SpecProber == Init /\ [][NextProber]_vars

NextSelector ==
    \/ EnvNext
    \/ \E target \in Targets : \E oracle \in SelectorOracles : Analyze(target, oracle)
    \/ Return

\* Calls of the strategy selector, on every target and oracle above.
SpecSelector == Init /\ [][NextSelector]_vars

NextDirs ==
    \/ Next
    \/ \E t \in Tools : \E d \in DirStates(t) : EnvOtherDir(t, d)

\* Spec, with the install directories of tools that are not clone-based changing
\* as well.
SpecDirs == Init /\ [][NextDirs]_vars

NextClock ==
    \/ Next
    \/ Tick

\* Spec with time passing between operations.
SpecClock == Init /\ [][NextClock]_vars

NextShared ==
    \/ EnvNext
    \/ \E e \in Engines : Startup(e)
    \/ \E key \in Tools : Install("cli", key)
    \/ \E key \in Tools : Exec("exec", key)
    \/ Return

\* Two engine instances over one state file: the CLI's ToolUpdater, which
\* installs, and a ToolExecutor's own ToolUpdater, which executes. Either may be
\* constructed, and act, at any time between the other's operations.
SpecShared == Init /\ [][NextShared]_vars

NextScan ==
    \/ EnvNext
    \/ Startup("cli")
    \/ \E key \in Tools : Install("cli", key)
    \/ \E plan \in ScanPlans : \E answer_y \in BOOLEAN : Scan(plan, answer_y)
    \/ Return

\* The CLI process: its ToolUpdater is constructed, installs, and scans are run.
SpecScan == Init /\ [][NextScan]_vars

NextStore ==
    \/ Next
    \/ \E f \in TamperedFiles : EnvFile(f)

\* Spec with the state file deleted or damaged between operations.
SpecStore == Init /\ [][NextStore]_vars

----------------------------------------------------------------------------
(* Properties *)

\* C1: in memory and in the state file an engine writes, a tool whose installed
\* flag is false has an empty local_version and an empty last_updated.
C1_UninstalledHasNoVersion ==
    /\ \A e \in Engines : \A t \in Tools :
          ~mem[e][t].installed =>
              /\ mem[e][t].local_version = EmptyStr
              /\ mem[e][t].last_updated = EmptyStr
    /\ \A i \in 1..Len(file.entries) :
          (file.entries[i].dict /\ ~file.entries[i].fields.installed) =>
              /\ file.entries[i].fields.local_version = EmptyStr
              /\ file.entries[i].fields.last_updated = EmptyStr

C3_InstalledIsAvailable ==
    (last.op = "install" /\ last.ok) =>
        /\ last.key \in Tools
        /\ Available(World(last.engine), last.key)

\* C3's case: Install ran the install command and returned success.
C3_Witness ==
    /\ last.op = "install"
    /\ last.ok
    /\ \E i \in 1..Len(last.cmds) : last.cmds[i] = <<"install", last.key>>
    /\ Available(World(last.engine), last.key)

\* C4: when Install has just returned success, a second Install of the same tool
\* in the unchanged environment succeeds and launches no external command.
C4_SecondInstallLaunchesNothing ==
    (last.op = "install" /\ last.ok) =>
        \A inp \in InstallInputs(World(last.engine), last.key) :
            LET r == InstallTool(World(last.engine), last.key, inp, now)
            IN  r.ok /\ r.w.cmds = <<>>

\* C5: an Update of a catalog tool the prober reports unavailable, whatever its
\* installed flag, never runs the update command and sends no request to the
\* oracle, and it ends as the Install it delegates to ends: same result, same
\* commands, same tool fields, state file, directories and PATH.
C5_UpdateDelegatesToInstall ==
    [][(last'.op = "update" /\ last'.key \in Tools
            /\ ~Available(World(last'.engine), last'.key)) =>
        LET e == last'.engine
            key == last'.key
            w0 == SaveState([World(e) EXCEPT !.mem[key].installed = FALSE])
        IN  /\ \A i \in 1..Len(last'.cmds) : last'.cmds[i] # <<"update", key>>
            /\ last'.reqs = <<>>
            /\ \E inp \in InstallInputs(w0, key) :
                  LET r == InstallTool(w0, key, inp, now)
                  IN  /\ last'.ok = r.ok
                      /\ last'.cmds = r.w.cmds
                      /\ mem'[e] = r.w.mem
                      /\ file' = r.w.file
                      /\ dirs' = r.w.dirs
                      /\ path' = r.w.path]_vars

\* C5's case: Update ran on an unavailable tool whose stale directory it removed,
\* ran the install command instead of the update command, sent no request, and
\* succeeded.
C5_Witness ==
    /\ last.op = "update"
    /\ last.ok
    /\ \E i \in 1..Len(last.cmds) : last.cmds[i] = <<"install", last.key>>
    /\ last.removed = {last.key}
    /\ last.reqs = <<>>

\* C6: Check-all, whatever the oracle answers, leaves every tool's installed,
\* local_version, latest_version and last_updated as they were, does not write
\* the state file and launches no command.
C6_CheckAllIsPureRead ==
    [][last'.op = "check_all" =>
        /\ mem' = mem
        /\ file' = file
        /\ last'.saves = 0
        /\ last'.cmds = <<>>
        /\ dirs' = dirs
        /\ path' = path]_vars

\* C6's case: Check-all returned with an installed tool for which the oracle
\* reported a newer version.
C6_Witness ==
    /\ last.op = "check_all"
    /\ \E t \in Tools :
          /\ mem[last.engine][t].installed
          /\ mem[last.engine][t].local_version = V100
          /\ last.oracle[t].version = V200

\* C7: Check-all sends the oracle's request for every catalog tool, installed or
\* not, and returns, in catalog order, exactly the tools for which an update is
\* needed (the oracle answered, and the tool's local_version is empty or differs
\* from the oracle's version), each with current = the tool's local_version and
\* latest = the oracle's version.
C7_CheckAllListsNeeded ==
    last.op = "check_all" =>
        LET local(t) == mem[last.engine][t].local_version
            needed(t) == /\ last.oracle[t].nonempty
                         /\ ~(local(t) # EmptyStr /\ local(t) = last.oracle[t].version)
            expected[i \in 0..Len(ToolOrder)] ==
                IF i = 0
                THEN <<>>
                ELSE IF needed(ToolOrder[i])
                     THEN Append(expected[i - 1],
                                 [tool_key |-> ToolOrder[i],
                                  current |-> local(ToolOrder[i]),
                                  latest |-> last.oracle[ToolOrder[i]].version])
                     ELSE expected[i - 1]
        IN  /\ \A t \in Tools :
                  \E i \in 1..Len(last.reqs) : last.reqs[i] = ReleasesRequest(Registry[t].repo)
            /\ [i \in 1..Len(last.ret) |->
                   [tool_key |-> last.ret[i].tool_key,
                    current |-> last.ret[i].current,
                    latest |-> last.ret[i].latest]] = expected[Len(ToolOrder)]

\* C7's case: Check-all returned a list that holds a tool with current "1.0.0"
\* and latest "2.0.0" while another tool is not marked installed.
C7_Witness ==
    /\ last.op = "check_all"
    /\ \E i \in 1..Len(last.ret) :
          /\ last.ret[i].current = V100
          /\ last.ret[i].latest = V200
    /\ \E t \in Tools : ~mem[last.engine][t].installed

\* C8: for every tool and every answer of the API, check_for_updates returns
\* (false, "") when the oracle's result is empty, (false, latest_version) with the
\* up-to-date note when local_version is non-empty and equals the oracle's
\* version, and (true, latest_version) in every other case.
C8_NeedsUpdateCases ==
    \A e \in MainEngines : \A t \in Tools : \A resp \in OracleResponses :
        LET o == GetLatestRelease(Registry[t].repo, resp).result
            local == mem[e][t].local_version
            chk == CheckForUpdates(World(e), t, resp)
        IN  IF ~o.nonempty
            THEN ~chk.needs_update /\ chk.latest_version = EmptyStr
            ELSE IF local # EmptyStr /\ local = o.version
                 THEN /\ ~chk.needs_update
                      /\ chk.latest_version = o.version
                      /\ chk.note = "Already up to date"
                 ELSE chk.needs_update /\ chk.latest_version = o.version

\* C8's case: Check-all returned for a tool whose local_version is non-empty and
\* equals the version the oracle reported, and did not list it.
C8_Witness ==
    /\ last.op = "check_all"
    /\ \E t \in Tools :
          /\ last.oracle[t].nonempty
          /\ mem[last.engine][t].local_version # EmptyStr
          /\ mem[last.engine][t].local_version = last.oracle[t].version
          /\ \A i \in 1..Len(last.ret) : last.ret[i].tool_key # t

\* C9: one get_latest_release call sends the releases/latest request exactly once;
\* on HTTP 200 with a tag name it returns that tag name as version; it sends the
\* commits request only after HTTP 404, exactly once, and then returns the first
\* commit's 7-character SHA when the API lists a commit; any other status and any
\* transport error yields an empty result.
C9_OracleProtocol ==
    last.op = "latest" =>
        LET resp == last.ret
            repo == Registry[last.key].repo
            result == last.oracle[1]
            is(r, n) == r.kind = "http" /\ r.status = n
        IN  /\ last.reqs[1] = ReleasesRequest(repo)
            /\ \A i \in 2..Len(last.reqs) : last.reqs[i] # ReleasesRequest(repo)
            /\ IF is(resp.rel, 404)
               THEN last.reqs = <<ReleasesRequest(repo), CommitsRequest(repo)>>
               ELSE last.reqs = <<ReleasesRequest(repo)>>
            /\ (is(resp.rel, 200) /\ resp.rel.json_ok /\ resp.rel.has_tag) =>
                  (result.nonempty /\ result.version = resp.rel.tag_name)
            /\ (is(resp.rel, 404) /\ is(resp.commits, 200) /\ resp.commits.json_ok
                    /\ resp.commits.commits # <<>> /\ resp.commits.commits[1].well_formed) =>
                  (result.nonempty /\ result.version = Prefix(resp.commits.commits[1].sha, 7))
            /\ (resp.rel.kind = "exception" \/ ~(is(resp.rel, 200) \/ is(resp.rel, 404))) =>
                  ~result.nonempty
            /\ (is(resp.rel, 404) /\ ~is(resp.commits, 200)) => ~result.nonempty

\* C10: execute fails (success false, no findings, an error message) and launches
\* no subprocess when the key is unknown, when the tool is not marked installed,
\* and when it is marked installed but the prober reports it unavailable; in the
\* third case it sets the tool's installed flag to false and writes the state
\* file, in the first two it changes no field and does not write the file.
C10_ExecutePreconditions ==
    [][last'.op = "execute" =>
        LET e == last'.engine
            key == last'.key
            unknown == key \notin Tools
            unmarked == ~unknown /\ ~mem[e][key].installed
            stale == ~unknown /\ mem[e][key].installed /\ ~Available(World(e), key)
        IN  /\ (unknown \/ unmarked \/ stale) =>
                  /\ ~last'.ret.success
                  /\ last'.ret.findings = <<>>
                  /\ last'.ret.error # ""
                  /\ last'.cmds = <<>>
            /\ stale =>
                  /\ mem'[e] = [mem[e] EXCEPT ![key].installed = FALSE]
                  /\ last'.saves = 1
                  /\ file' = JsonDump(mem'[e])
            /\ (unknown \/ unmarked) =>
                  /\ mem' = mem
                  /\ file' = file
                  /\ last'.saves = 0]_vars

\* C10's case: execute on a tool marked installed whose installation is gone
\* returned a failure, cleared the flag and wrote the state file.
C10_Witness ==
    /\ last.op = "execute"
    /\ last.key \in Tools
    /\ ~last.ok
    /\ last.saves = 1
    /\ last.cmds = <<>>
    /\ ~mem[last.engine][last.key].installed
    /\ file = JsonDump(mem[last.engine])

\* C11: an execution whose process exits non-zero (or that fails otherwise)
\* returns an empty findings list whatever it printed; the findings of a run that
\* exited zero are those extracted from its stdout.
C11_FindingsOnlyFromExitZero ==
    last.op = "execute" =>
        /\ ~last.ret.success => last.ret.findings = <<>>
        /\ last.ret.success =>
              last.ret.findings = ExtractFindings(last.key, last.ret.output)

\* C11's case: the tool ran, exited non-zero having printed output from which
\* findings would be extracted, and the result has no findings.
C11_Witness ==
    /\ last.op = "execute"
    /\ last.cmds = <<<<"run", last.key>>>>
    /\ ~last.ret.success
    /\ ExtractFindings(last.key, last.ret.output) # <<>>
    /\ last.ret.findings = <<>>

\* C12, as stated: for sqlmap, an output that contains "is vulnerable" in any
\* case yields exactly one finding, of severity HIGH, and an output that contains
\* none of the phrases looked for yields no finding.
C12_VulnerableYieldsOneHigh ==
    (last.op = "extract" /\ last.key = "sqlmap") =>
        LET lowered == Lower(last.ret.output)
            vulnerable == Contains(lowered, <<"i", "s", " ", "v", "u", "l", "n", "e", "r", "a", "b", "l", "e">>)
            injectable == /\ Contains(lowered, <<"p", "a", "r", "a", "m", "e", "t", "e", "r">>)
                          /\ Contains(lowered, <<"i", "n", "j", "e", "c", "t", "a", "b", "l", "e">>)
        IN  /\ vulnerable =>
                  /\ Len(last.ret.findings) = 1
                  /\ last.ret.findings[1].severity = High
            /\ (~vulnerable /\ ~injectable) => last.ret.findings = <<>>

\* C12, amended: for sqlmap, an output that contains "is vulnerable" in any case
\* yields one HIGH finding "SQL Injection vulnerability found", an output that
\* contains both "parameter" and "injectable" yields one HIGH finding "Injectable
\* parameter found", an output with both yields the two in that order, and an
\* output with neither yields no finding.
C12_OneHighPerPhrase ==
    (last.op = "extract" /\ last.key = "sqlmap") =>
        LET lowered == Lower(last.ret.output)
            vulnerable == Contains(lowered, <<"i", "s", " ", "v", "u", "l", "n", "e", "r", "a", "b", "l", "e">>)
            injectable == /\ Contains(lowered, <<"p", "a", "r", "a", "m", "e", "t", "e", "r">>)
                          /\ Contains(lowered, <<"i", "n", "j", "e", "c", "t", "a", "b", "l", "e">>)
            findings == last.ret.findings
        IN  /\ Len(findings) = (IF vulnerable THEN 1 ELSE 0) + (IF injectable THEN 1 ELSE 0)
            /\ \A i \in 1..Len(findings) :
                  findings[i].severity = High /\ findings[i].id = SqlInjection
            /\ vulnerable => findings[1].detail = <<"S", "Q", "L", " ", "I", "n", "j", "e", "c", "t", "i", "o", "n", " ", "v", "u", "l", "n", "e", "r", "a", "b", "i", "l", "i", "t", "y", " ", "f", "o", "u", "n", "d">>
            /\ injectable => findings[Len(findings)].detail = <<"I", "n", "j", "e", "c", "t", "a", "b", "l", "e", " ", "p", "a", "r", "a", "m", "e", "t", "e", "r", " ", "f", "o", "u", "n", "d">>

\* C12's case: sqlmap's output holds "Is Vulnerable" in mixed case and no
\* injectable parameter, and exactly one HIGH finding came back.
C12_Witness ==
    /\ last.op = "extract"
    /\ last.key = "sqlmap"
    /\ Contains(last.ret.output, <<"I", "s", " ", "V", "u", "l", "n", "e", "r", "a", "b", "l", "e">>)
    /\ ~Contains(Lower(last.ret.output), <<"i", "n", "j", "e", "c", "t", "a", "b", "l", "e">>)
    /\ Len(last.ret.findings) = 1
    /\ last.ret.findings[1].severity = High

\* C13: whatever an engine holds in memory, the file _save_state writes from it,
\* loaded by _load_state into a fresh catalog, gives every tool the same installed,
\* local_version and last_updated.
C13_SaveLoadRoundTrip ==
    \A e \in Engines :
        LET written == SaveState(World(e)).file
            loaded == LoadState(Defaults, written)
        IN  \A t \in Tools :
                /\ loaded[t].installed = mem[e][t].installed
                /\ loaded[t].local_version = mem[e][t].local_version
                /\ loaded[t].last_updated = mem[e][t].last_updated

\* C13's case: an engine has just been constructed from a file an earlier
\* operation wrote, nothing needed reconciling, and it holds an installed tool
\* with a version and a timestamp, all three read from that file.
C13_Witness ==
    /\ last.op = "startup"
    /\ last.saves = 0
    /\ file.kind = "json"
    /\ \E t \in Tools :
          /\ mem[last.engine][t].installed
          /\ mem[last.engine][t].local_version # EmptyStr
          /\ mem[last.engine][t].last_updated # EmptyStr
          /\ file.entries[CHOOSE i \in 1..Len(ToolOrder) : ToolOrder[i] = t].fields
                = [installed |-> TRUE,
                   local_version |-> mem[last.engine][t].local_version,
                   last_updated |-> mem[last.engine][t].last_updated]

\* The values the cached fields of a tool are varied over in C14.
CachedStates ==
    [installed : BOOLEAN, local_version : {EmptyStr, V100},
     latest_version : {EmptyStr, V200}, last_updated : {EmptyStr, IsoFormat(1)}]

\* C14: with the descriptor, the directories and PATH as they are, the prober gives
\* the same answer for a tool whatever installed, local_version, latest_version and
\* last_updated the engine holds for it.
C14_ProberIgnoresCachedState ==
    \A e \in Engines : \A t \in Tools : \A cached \in CachedStates :
        Available([World(e) EXCEPT !.mem[t] = cached], t) = Available(World(e), t)

\* C14's case: an Install has just probed a tool whose cached flag says installed
\* while its files are gone; the install was attempted and failed, so the prober
\* answered against the flag.
C14_Witness ==
    /\ last.op = "install"
    /\ last.key \in Tools
    /\ ~last.ok
    /\ last.cmds # <<>>
    /\ mem[last.engine][last.key].installed
    /\ ~Available(World(last.engine), last.key)

\* C15: an Install, Update or execute with a key that is not in the catalog
\* returns failure having launched no subprocess, sent no oracle request, deleted
\* no directory, changed no tool's state and not written the state file.
C15_UnknownKeyNoSideEffect ==
    [][(last'.op \in {"install", "update", "execute"} /\ last'.key \notin Tools) =>
          /\ ~last'.ok
          /\ last'.cmds = <<>>
          /\ last'.reqs = <<>>
          /\ last'.removed = {}
          /\ last'.saves = 0
          /\ mem' = mem
          /\ file' = file
          /\ dirs' = dirs
          /\ path' = path]_vars

\* C15's case: an Update with the unknown key has returned failure, on an engine
\* that holds an installed tool (so there was state to change and to write).
C15_Witness ==
    /\ last.op = "update"
    /\ last.key = UnknownKey
    /\ ~last.ok
    /\ \E t \in Tools : mem[last.engine][t].installed

\* [a-f0-9]{8,40} in either case: a hex string of 8 to 40 characters.
IsHexString8to40(ver) ==
    /\ Len(ver) >= 8
    /\ Len(ver) <= 40
    /\ \A k \in 1..Len(ver) : ver[k] \in HexAnyCase

\* C16: when the version command succeeds, the numeric triple is tried first, then
\* the `version` token, then the hex line, and the first that matches gives the
\* version; a matched token that is a hex string of 8 to 40 characters is returned
\* cut to its first 7 characters, any other matched token whole.
C16_ResolverPatterns ==
    (last.op = "resolve" /\ last.ret.vout.ok) =>
        LET text == last.ret.vout.stdout \o last.ret.vout.stderr
            m1 == SearchTriple(text)
            m2 == SearchToken(text)
            m3 == SearchHash(text)
            ver == IF m1.found THEN m1.group
                   ELSE IF m2.found THEN m2.group ELSE m3.group
        IN  (m1.found \/ m2.found \/ m3.found) =>
                last.ret.version = IF IsHexString8to40(ver) THEN Prefix(ver, 7) ELSE ver

\* C16's divergence: the version command printed a 40-character hex string in
\* upper case on its own line, and all 40 characters came back as the version.
C16_UpperCaseHashReturnedWhole ==
    /\ last.op = "resolve"
    /\ last.ret.vout.ok
    /\ last.ret.vout.stdout = Sha40Upper \o <<"\n">>
    /\ last.ret.vout.stderr = EmptyStr
    /\ last.ret.version = Sha40Upper

\* C17: when the selector has no oracle client, or the oracle call fails, or no
\* JSON object can be extracted from the response, the plan recommends dirsearch
\* first, then sqlmap if and only if the target contains "?" or "login" in any
\* case, then xsstrike, and nothing else; the plan depends on the target only.
C17_FallbackPlan ==
    last.op = "analyze" =>
        LET target == last.ret.target
            oracle == last.ret.oracle
            text == oracle.text
            extracted == /\ Contains(text, <<"{">>)
                         /\ ~JsonLoads(Slice(text, Find(text, "{"), RFind(text, "}") + 1)).raises
            failed == ~oracle.client \/ oracle.raises \/ ~oracle.has_content \/ ~extracted
            injection == \/ \E i \in 1..Len(target) : target[i] = "?"
                         \/ Contains(Lower(target), <<"l", "o", "g", "i", "n">>)
            tools == last.ret.plan.recommended_tools
        IN  failed =>
                /\ [i \in 1..Len(tools) |-> tools[i].tool]
                      = IF injection THEN <<"dirsearch", "sqlmap", "xsstrike">>
                                     ELSE <<"dirsearch", "xsstrike">>
                /\ \A other \in SelectorOracles :
                      (~other.client \/ other.raises \/ ~other.has_content)
                          => AnalyzeTarget(target, other) = last.ret.plan

\* C17's case: the oracle answered with braces around something that is not JSON,
\* the target has "<<"l", "o", "g", "i", "n">>" in upper case and no query string, and the plan is
\* dirsearch, sqlmap, xsstrike.
C17_Witness ==
    /\ last.op = "analyze"
    /\ last.ret.oracle.client
    /\ last.ret.oracle.has_content
    /\ Contains(last.ret.oracle.text, <<"{">>)
    /\ Contains(last.ret.oracle.text, <<"}">>)
    /\ Contains(last.ret.target, <<"L", "O", "G", "I", "N">>)
    /\ ~Contains(last.ret.target, <<"?">>)
    /\ Len(last.ret.plan.recommended_tools) = 3
    /\ last.ret.plan.recommended_tools[2].tool = "sqlmap"

\* C18: when an engine has just been constructed, every tool's installed flag
\* equals the prober's answer; when an Install, Update or execute of a catalog tool
\* has just returned, with success or failure, that tool's installed flag equals
\* the prober's answer.
C18_FlagEqualsProberAfterOperation ==
    /\ last.op = "startup" =>
          \A t \in Tools :
              mem[last.engine][t].installed = Available(World(last.engine), t)
    /\ (last.op \in {"install", "update", "execute"} /\ last.key \in Tools) =>
          mem[last.engine][last.key].installed = Available(World(last.engine), last.key)

\* C18's divergence: an execute has just returned "is not installed" without
\* launching anything, for a tool the prober reports available; the flag is still
\* false.
C18_ExecuteLeavesFlagStale ==
    /\ last.op = "execute"
    /\ last.key \in Tools
    /\ ~last.ok
    /\ last.cmds = <<>>
    /\ ~mem[last.engine][last.key].installed
    /\ Available(World(last.engine), last.key)

\* C19: when a startup reconcile, Install, Update, Update-all or execute has just
\* returned, the state file gives every tool the installed, local_version and
\* last_updated the engine holds in memory.
C19_MemoryIsPersisted ==
    last.op \in {"startup", "install", "update", "update_all", "execute"} =>
        LET stored == LoadState(Defaults, file)
        IN  \A t \in Tools :
                /\ stored[t].installed = mem[last.engine][t].installed
                /\ stored[t].local_version = mem[last.engine][t].local_version
                /\ stored[t].last_updated = mem[last.engine][t].last_updated

\* C19's divergence: an Update has just returned success without running the
\* update command and without writing the state file, and the tool it marked
\* installed in memory is not installed according to the file.
C19_UpdateLeavesFlagUnwritten ==
    /\ last.op = "update"
    /\ last.key \in Tools
    /\ last.ok
    /\ last.saves = 0
    /\ mem[last.engine][last.key].installed
    /\ ~LoadState(Defaults, file)[last.key].installed

\* C20: the reconcile an engine runs at construction, on the state it loaded from
\* the file, sets every tool's installed flag to the prober's answer, clears
\* local_version and last_updated of every tool whose flag went from true to
\* false, leaves them as loaded for every other tool, and writes the state file
\* (once, with the reconciled state) if and only if some tool's flag changed.
C20_Reconcile ==
    [][last'.op = "startup" =>
          LET e == last'.engine
              loaded == LoadState(Defaults, file)
              changed == {t \in Tools : loaded[t].installed # mem'[e][t].installed}
          IN  /\ \A t \in Tools :
                    /\ mem'[e][t].installed = Available(World(e), t)
                    /\ IF loaded[t].installed /\ ~mem'[e][t].installed
                       THEN /\ mem'[e][t].local_version = EmptyStr
                            /\ mem'[e][t].last_updated = EmptyStr
                       ELSE /\ mem'[e][t].local_version = loaded[t].local_version
                            /\ mem'[e][t].last_updated = loaded[t].last_updated
              /\ last'.saves = IF changed # {} THEN 1 ELSE 0
              /\ file' = IF changed # {} THEN JsonDump(mem'[e]) ELSE file
              /\ dirs' = dirs /\ path' = path]_vars

\* C20's case: a reconcile has just written the state file and left no tool
\* marked installed, so a flag went from true to false; the file it wrote has that
\* tool without version and timestamp.
C20_Witness ==
    /\ last.op = "startup"
    /\ last.saves = 1
    /\ \A t \in Tools :
          /\ ~mem[last.engine][t].installed
          /\ mem[last.engine][t].local_version = EmptyStr
          /\ mem[last.engine][t].last_updated = EmptyStr
    /\ file = JsonDump(mem[last.engine])

\* C21: an Install of a tool the prober reports available, with git (and go, if
\* the tool requires it) resolvable, returns success without running the install
\* command and without deleting or changing any directory, leaves the tool marked
\* installed and writes the state file once, with the engine's state.
C21_AvailableInstallIsIdempotent ==
    [][(/\ last'.op = "install"
        /\ last'.key \in Tools
        /\ Available(World(last'.engine), last'.key)
        /\ CheckRequirements(World(last'.engine), Registry[last'.key]).ok) =>
          /\ last'.ok
          /\ \A i \in 1..Len(last'.cmds) : last'.cmds[i] # <<"install", last'.key>>
          /\ last'.removed = {}
          /\ dirs' = dirs
          /\ mem'[last'.engine][last'.key].installed
          /\ last'.saves = 1
          /\ file' = JsonDump(mem'[last'.engine])]_vars

\* C21's case: an Install has just returned success having launched only the
\* prerequisite check and the version command, for a tool whose files are in
\* place; the tool is marked installed and the state file was written.
C21_Witness ==
    /\ last.op = "install"
    /\ last.ok
    /\ last.cmds = <<GitVersionCmd, <<"version", last.key>>>>
    /\ last.removed = {}
    /\ last.saves = 1
    /\ mem[last.engine][last.key].installed
    /\ Available(World(last.engine), last.key)

\* C22: an Install of a tool the prober reports available, with prerequisites
\* resolvable, leaves a local_version that was not empty exactly as it was.
C22_AvailableInstallKeepsVersion ==
    [][(/\ last'.op = "install"
        /\ last'.key \in Tools
        /\ Available(World(last'.engine), last'.key)
        /\ CheckRequirements(World(last'.engine), Registry[last'.key]).ok
        /\ mem[last'.engine][last'.key].local_version # EmptyStr) =>
          mem'[last'.engine][last'.key].local_version
              = mem[last'.engine][last'.key].local_version]_vars

\* C22's divergence: an Install has just returned on the already-available path
\* (no install command ran) for a tool that an Update had brought to the oracle's
\* version 2.0.0, and its local_version is now the 1.0.0 the version command
\* printed.
C22_InstallOverwritesVersion ==
    /\ last.op = "install"
    /\ last.ok
    /\ last.cmds = <<GitVersionCmd, <<"version", last.key>>>>
    /\ mem[last.engine][last.key].latest_version = V200
    /\ mem[last.engine][last.key].local_version = V100

\* C23: when an Install has run the install command and returns success, the
\* tool is marked installed, its local_version is what the Version Resolver makes
\* of the version command's result, its last_updated is the time of the call (not
\* empty), and the state file has been written and holds these three values.
C23_InstallSuccessRecordsState ==
    [][(/\ last'.op = "install"
        /\ last'.ok
        /\ \E i \in 1..Len(last'.cmds) : last'.cmds[i] = <<"install", last'.key>>) =>
          LET tool == mem'[last'.engine][last'.key]
              stored == LoadState(Defaults, file')[last'.key]
          IN  /\ tool.installed
              /\ tool.local_version = ResolveVersion(last'.oracle[1].vout)
              /\ tool.last_updated = IsoFormat(now)
              /\ tool.last_updated # EmptyStr
              /\ last'.saves >= 1
              /\ stored.installed = tool.installed
              /\ stored.local_version = tool.local_version
              /\ stored.last_updated = tool.last_updated]_vars

\* C23's case: an Install that ran the install command has just returned success
\* after the clock moved on; the tool has the version the version command printed
\* and the timestamp of now.
C23_Witness ==
    /\ last.op = "install"
    /\ last.ok
    /\ \E i \in 1..Len(last.cmds) : last.cmds[i] = <<"install", last.key>>
    /\ now > 1
    /\ mem[last.engine][last.key].installed
    /\ mem[last.engine][last.key].local_version = V100
    /\ mem[last.engine][last.key].last_updated = IsoFormat(now)

\* C24: when an Install of a catalog tool returns failure (a prerequisite is
\* missing, the stale directory cannot be removed, the install command fails, or
\* the prober does not find the tool afterwards), every tool's installed,
\* local_version, latest_version and last_updated are as they were when it was
\* called and the state file has not been written.
C24_FailedInstallLeavesState ==
    [][(last'.op = "install" /\ last'.key \in Tools /\ ~last'.ok) =>
          /\ mem' = mem
          /\ last'.saves = 0
          /\ file' = file]_vars

\* C24's case: an Install has just failed although its install command exited
\* zero (the prober does not find the tool), for a tool that was marked installed
\* with a version; the flag and the version are still there.
C24_Witness ==
    /\ last.op = "install"
    /\ ~last.ok
    /\ last.exit0
    /\ \E i \in 1..Len(last.cmds) : last.cmds[i] = <<"install", last.key>>
    /\ last.saves = 0
    /\ mem[last.engine][last.key].installed
    /\ mem[last.engine][last.key].local_version # EmptyStr

\* C25: an Install of a tool whose prerequisite is not on PATH (git for every
\* tool, go as well for a tool that requires it) fails having launched only the
\* prerequisite checks, whether or not the prober would report the tool
\* available, with no directory deleted or changed, and the message names the
\* missing prerequisite; an Install of a tool that does not require go, with git
\* on PATH, passes the prerequisite check and never asks for go.
C25_MissingPrerequisiteFailsFirst ==
    [][(last'.op = "install" /\ last'.key \in Tools) =>
          LET tool == Registry[last'.key]
              missing_git == "git" \notin path
              missing_go == tool.requires_go /\ "go" \notin path
              req == CheckRequirements(World(last'.engine), tool)
          IN  /\ (missing_git \/ missing_go) =>
                    /\ ~last'.ok
                    /\ last'.cmds = IF missing_git THEN <<GitVersionCmd>>
                                                   ELSE <<GitVersionCmd, GoVersionCmd>>
                    /\ req.msg = IF missing_git THEN "Git is not installed"
                                                ELSE "Go is not installed"
                    /\ last'.removed = {}
                    /\ dirs' = dirs
              /\ (~tool.requires_go /\ ~missing_git) =>
                    /\ req.ok
                    /\ \A i \in 1..Len(last'.cmds) : last'.cmds[i] # GoVersionCmd]_vars

\* C25's case: an Install of the tool that requires go has just failed after the
\* git and go checks and nothing else, with git on PATH and go not, although the
\* prober reports the tool available.
C25_Witness ==
    /\ last.op = "install"
    /\ last.key \in Tools
    /\ Registry[last.key].requires_go
    /\ ~last.ok
    /\ last.cmds = <<GitVersionCmd, GoVersionCmd>>
    /\ "git" \in path
    /\ "go" \notin path
    /\ Available(World(last.engine), last.key)

\* C26: an Install deletes no directory but the tool's own, and deletes that one
\* only if the tool is clone-based, the prober reports it unavailable and the
\* directory exists; the install command then runs, after the deletion (the
\* directory on return is what the install command left). An Install of a tool
\* the prober reports available, or of a tool that is not clone-based, deletes
\* nothing and leaves every directory as it was.
C26_DeletesOnlyStaleClone ==
    [][(last'.op = "install" /\ last'.key \in Tools) =>
          LET e == last'.engine
              key == last'.key
          IN  /\ last'.removed \subseteq {key}
              /\ last'.removed # {} =>
                    /\ Registry[key].git_clone
                    /\ ~Available(World(e), key)
                    /\ dirs[key].exists
                    /\ \E i \in 1..Len(last'.cmds) : last'.cmds[i] = <<"install", key>>
                    /\ dirs'[key] = last'.oracle[1].cmd.dir
              /\ Available(World(e), key) => (last'.removed = {} /\ dirs' = dirs)
              /\ ~Registry[key].git_clone => (last'.removed = {} /\ dirs' = dirs)]_vars

\* C26's case: an Install has just deleted the incomplete directory of the
\* clone-based tool, run the install command and succeeded; the directory holds
\* the files the clone brought.
C26_Witness ==
    /\ last.op = "install"
    /\ last.key \in Tools
    /\ last.removed = {last.key}
    /\ Registry[last.key].git_clone
    /\ last.ok
    /\ \E i \in 1..Len(last.cmds) : last.cmds[i] = <<"install", last.key>>
    /\ ToolRequiredFiles(last.key) \subseteq dirs[last.key].files

\* C27, as stated: an Update of a tool the prober reports available, when the
\* oracle's result is empty or local_version equals the oracle's version, returns
\* success having launched no command and leaves local_version, latest_version
\* and last_updated as they were.
C27_NoUpdateWhenEqual ==
    [][(/\ last'.op = "update"
        /\ last'.key \in Tools
        /\ Available(World(last'.engine), last'.key)
        /\ LET o == GetLatestRelease(Registry[last'.key].repo, last'.oracle[1].resp).result
               local == mem[last'.engine][last'.key].local_version
           IN  ~o.nonempty \/ (local = o.version)) =>
          LET before == mem[last'.engine][last'.key]
              after == mem'[last'.engine][last'.key]
          IN  /\ last'.ok
              /\ last'.cmds = <<>>
              /\ after.local_version = before.local_version
              /\ after.latest_version = before.latest_version
              /\ after.last_updated = before.last_updated]_vars

\* C27, amended: an Update of a tool the prober reports available, when the
\* oracle's result is empty or local_version is not empty and equals the oracle's
\* version, returns success having launched no command and leaves local_version,
\* latest_version and last_updated as they were.
C27_NoUpdateWhenKnownAndEqual ==
    [][(/\ last'.op = "update"
        /\ last'.key \in Tools
        /\ Available(World(last'.engine), last'.key)
        /\ LET o == GetLatestRelease(Registry[last'.key].repo, last'.oracle[1].resp).result
               local == mem[last'.engine][last'.key].local_version
           IN  ~o.nonempty \/ (local # EmptyStr /\ local = o.version)) =>
          LET before == mem[last'.engine][last'.key]
              after == mem'[last'.engine][last'.key]
          IN  /\ last'.ok
              /\ last'.cmds = <<>>
              /\ after.local_version = before.local_version
              /\ after.latest_version = before.latest_version
              /\ after.last_updated = before.last_updated]_vars

\* C27's case: an Update has just returned success having asked the oracle and
\* launched nothing, for a tool whose local_version is the 2.0.0 the oracle
\* reported.
C27_Witness ==
    /\ last.op = "update"
    /\ last.key \in Tools
    /\ last.ok
    /\ last.cmds = <<>>
    /\ last.reqs # <<>>
    /\ last.oracle[1].resp.rel = ReleaseOk(V200)
    /\ mem[last.engine][last.key].local_version = V200

\* C28: when an Update has run the update command and the command exited zero,
\* Update returns success, local_version and latest_version are both the version
\* the oracle reported in that call, last_updated is the time of the call, and
\* the state file has been written and holds the tool's state.
C28_UpdateSuccessRecordsState ==
    [][(/\ last'.op = "update"
        /\ last'.key \in Tools
        /\ \E i \in 1..Len(last'.cmds) : last'.cmds[i] = <<"update", last'.key>>
        /\ last'.oracle[1].upd_ok) =>
          LET o == GetLatestRelease(Registry[last'.key].repo, last'.oracle[1].resp).result
              tool == mem'[last'.engine][last'.key]
              stored == LoadState(Defaults, file')[last'.key]
          IN  /\ last'.ok
              /\ o.nonempty
              /\ tool.local_version = o.version
              /\ tool.latest_version = o.version
              /\ tool.last_updated = IsoFormat(now)
              /\ last'.saves >= 1
              /\ stored.installed = tool.installed
              /\ stored.local_version = tool.local_version
              /\ stored.last_updated = tool.last_updated]_vars

\* C28's case: an Update has just run the update command and returned success
\* after the clock moved on; the tool is at the oracle's 2.0.0 with the timestamp
\* of now.
C28_Witness ==
    /\ last.op = "update"
    /\ last.key \in Tools
    /\ last.ok
    /\ \E i \in 1..Len(last.cmds) : last.cmds[i] = <<"update", last.key>>
    /\ now > 1
    /\ mem[last.engine][last.key].local_version = V200
    /\ mem[last.engine][last.key].latest_version = V200
    /\ mem[last.engine][last.key].last_updated = IsoFormat(now)

\* C29: when an Update has run the update command and the command failed, Update
\* returns failure, and the tool's installed, local_version, latest_version and
\* last_updated in memory, and the state file, are as they were when it was called.
C29_FailedUpdateLeavesState ==
    [][(/\ last'.op = "update"
        /\ last'.key \in Tools
        /\ \E i \in 1..Len(last'.cmds) : last'.cmds[i] = <<"update", last'.key>>
        /\ ~last'.oracle[1].upd_ok) =>
          /\ ~last'.ok
          /\ mem'[last'.engine][last'.key] = mem[last'.engine][last'.key]
          /\ file' = file]_vars

\* C29's divergence: an Update whose update command failed has just returned
\* failure without writing the state file; the engine holds the tool as installed
\* while the file, which it loaded and never contradicted by a save, says it is
\* not.
C29_FailedUpdateSetsFlag ==
    /\ last.op = "update"
    /\ last.key \in Tools
    /\ ~last.ok
    /\ last.cmds = <<<<"update", last.key>>>>
    /\ last.saves = 0
    /\ mem[last.engine][last.key].installed
    /\ ~LoadState(Defaults, file)[last.key].installed

\* The number of entries of the sequence s that equal x.
Count(s, x) == Cardinality({i \in 1..Len(s) : s[i] = x})

\* C30: an Update-all returns one (tool, success) entry for every tool whose
\* installed flag was true, in catalog order, and none for any other tool,
\* whether or not an earlier entry is a failure. Every tool with an entry was
\* updated once: if the prober reports it available the oracle was asked once
\* about it and its update command ran at most once; otherwise Update delegated
\* to Install, whose prerequisite check ran once per such tool. A tool without an
\* entry was not touched: no request, no command, no change of its state. The
\* batch can always run to its end.
C30_UpdateAllCoversInstalled ==
    /\ [][last'.op = "update_all" =>
            LET e == last'.engine
                flagged == {t \in Tools : mem[e][t].installed}
                expected == SelectSeq(ToolOrder, LAMBDA t : t \in flagged)
                results == last'.ret
            IN  /\ [i \in 1..Len(results) |-> results[i][1]] = expected
                /\ \A i \in 1..Len(results) : results[i][2] \in BOOLEAN
                /\ \A t \in flagged :
                      IF Available(World(e), t)
                      THEN /\ Count(last'.reqs, ReleasesRequest(Registry[t].repo)) = 1
                           /\ Count(last'.cmds, <<"update", t>>) <= 1
                           /\ Count(last'.cmds, <<"install", t>>) = 0
                      ELSE /\ Count(last'.reqs, ReleasesRequest(Registry[t].repo)) = 0
                           /\ Count(last'.cmds, <<"update", t>>) = 0
                           /\ Count(last'.cmds, <<"install", t>>) <= 1
                /\ Count(last'.cmds, GitVersionCmd)
                      = Cardinality({t \in flagged : ~Available(World(e), t)})
                /\ \A t \in Tools \ flagged :
                      /\ Count(last'.reqs, ReleasesRequest(Registry[t].repo)) = 0
                      /\ \A i \in 1..Len(last'.cmds) : last'.cmds[i][2] # t
                      /\ mem'[e][t] = mem[e][t]
                      /\ dirs'[t] = dirs[t]]_vars
    /\ [](last = Idle => \A e \in MainEngines : UpdateAllTools(World(e), now) # {})

\* C30's case: an Update-all over two installed tools has just returned; the
\* update of the first failed, and the second was updated all the same, its
\* update command having run.
C30_Witness ==
    /\ last.op = "update_all"
    /\ Len(last.ret) = 2
    /\ ~last.ret[1][2]
    /\ last.ret[2][2]
    /\ \E i \in 1..Len(last.cmds) : last.cmds[i] = <<"update", last.ret[2][1]>>

\* C31: when an engine is constructed over a state file that cannot be parsed, or
\* that parses but has an entry that is not an object, it starts from the
\* defaults: no tool takes anything from the file, so on return every tool's flag
\* is the prober's answer and its local_version and last_updated are empty.
C31_DamagedFileMeansDefaults ==
    [][(/\ last'.op = "startup"
        /\ \/ file.kind = "corrupt"
           \/ file.kind = "json" /\ \E i \in 1..Len(file.entries) : ~file.entries[i].dict) =>
          /\ LoadState(Defaults, file) = Defaults
          /\ \A t \in Tools :
                /\ mem'[last'.engine][t].installed = Available(World(last'.engine), t)
                /\ mem'[last'.engine][t].local_version = EmptyStr
                /\ mem'[last'.engine][t].last_updated = EmptyStr]_vars

\* C31's divergence: an engine has just been constructed over a file with an
\* entry that is not an object (the file is still as it was, nothing needed
\* writing), and it holds a version and a timestamp for another tool, taken from
\* the entry that precedes the malformed one.
C31_PartiallyLoaded ==
    /\ last.op = "startup"
    /\ last.saves = 0
    /\ file.kind = "json"
    /\ \E i \in 1..Len(file.entries) : ~file.entries[i].dict
    /\ \E t \in Tools :
          /\ mem[last.engine][t].installed
          /\ mem[last.engine][t].local_version # EmptyStr
          /\ mem[last.engine][t].last_updated # EmptyStr

\* C32: the prober decides by install mechanism. A clone-based tool is available
\* exactly when its install path exists and holds all the files the catalog
\* requires of it, or, the catalog requiring none, holds anything at all; a tool
\* installed by the package manager or the Go toolchain exactly when one of its
\* expected command names (its aliases, else its key and its normalized name) is
\* on PATH; any other tool exactly when its install path exists.
C32_ProbeByMechanism ==
    last.op = "probe" =>
        LET tool == last.ret.tool
            d == last.ret.dir
            expected == IF last.key \in {"dirsearch", "paramspider", "nuclei", "httpx",
                                          "subfinder"}
                        THEN {last.key}
                        ELSE {last.key, tool.norm_name}
            required == ToolRequiredFiles(last.key)
        IN  last.ok <=>
              IF tool.git_clone
              THEN /\ tool.has_path
                   /\ d.exists
                   /\ IF required # {} THEN required \subseteq d.files ELSE d.files # {}
              ELSE IF tool.pip_install \/ tool.requires_go
                   THEN expected \cap last.ret.path # {}
                   ELSE tool.has_path /\ d.exists

\* C32's case: the prober has just been run on nuclei-templates, a cloned tool of
\* which the catalog requires no file, with its install directory existing but
\* empty, and has answered that it is not available.
C32_Witness ==
    /\ last.op = "probe"
    /\ last.key = "nuclei-templates"
    /\ last.ret.tool.git_clone
    /\ last.ret.dir = [exists |-> TRUE, files |-> {}]
    /\ ~last.ok

\* C33: when the version command exits successfully and no pattern matches, the
\* resolver returns the first 20 characters of the trimmed stdout, or "installed"
\* when there is nothing to return from stdout, so never an empty string; when
\* the command fails it returns "unknown".
C33_ResolverFallback ==
    last.op = "resolve" =>
        LET vout == last.ret.vout
            text == vout.stdout \o vout.stderr
            matched == \/ SearchTriple(text).found
                       \/ SearchToken(text).found
                       \/ SearchHash(text).found
        IN  /\ ~vout.ok => last.ret.version = UnknownVersion
            /\ (vout.ok /\ ~matched) =>
                  /\ last.ret.version # EmptyStr
                  /\ last.ret.version = IF vout.stdout # EmptyStr
                                        THEN Prefix(Strip(vout.stdout), 20)
                                        ELSE InstalledVersion

\* C33's divergence: the version command exited successfully having printed
\* white space only, and the resolver returned the empty string.
C33_BlankStdoutGivesEmpty ==
    /\ last.op = "resolve"
    /\ last.ret.vout.ok
    /\ last.ret.vout.stdout = <<" ", " ", "\n">>
    /\ last.ret.vout.stderr = EmptyStr
    /\ last.ret.version = EmptyStr

\* C34: instances sharing the state file are not synchronized and the last writer
\* wins: an operation of either instance that persists leaves in the file the
\* full tool map of that instance's memory, whatever the file held and whatever
\* the other instance holds.
C34_LastWriterWins ==
    [][(last'.op # "none" /\ last'.saves >= 1) =>
          file' = JsonDump(mem'[last'.engine])]_vars

\* C34's case: the executor's instance has just persisted on executing one tool,
\* and the file now says of another tool, which the CLI's instance installed and
\* recorded with its version and timestamp, that it is not installed and has
\* neither.
C34_Witness ==
    /\ last.op = "execute"
    /\ last.engine = "exec"
    /\ last.saves >= 1
    /\ file = JsonDump(mem["exec"])
    /\ \E t \in Tools \ {last.key} :
          /\ mem["cli"][t].installed
          /\ mem["cli"][t].local_version # EmptyStr
          /\ mem["cli"][t].last_updated # EmptyStr
          /\ mem["exec"][t] = DefaultState

\* The commands of cmds that run a tool, in the order they were launched.
RunsOf(cmds) == SelectSeq(cmds, LAMBDA c : c[1] = "run")

\* C35: in a scan the user agreed to, the entries of the plan are processed in
\* plan order, and for each entry naming a catalog tool the engine sees to it
\* that the tool is installed before it is run: the tool is run, or at least its
\* install command was launched.
C35_ScanEnsuresInstalled ==
    (last.op = "scan" /\ last.ok) =>
        LET plan == last.oracle[1]
            results == last.ret
            runs == RunsOf(last.cmds)
        IN  /\ Len(results) = Len(plan)
            /\ \A i \in 1..Len(plan) : results[i][1] = plan[i]
            /\ \A a, b \in 1..Len(runs) :
                  a < b => \E i, j \in 1..Len(plan) :
                              i < j /\ plan[i] = runs[a][2] /\ plan[j] = runs[b][2]
            /\ \A i \in 1..Len(plan) :
                  plan[i] \in Tools =>
                      \/ \E k \in 1..Len(last.cmds) : last.cmds[k] = <<"run", plan[i]>>
                      \/ \E k \in 1..Len(last.cmds) : last.cmds[k] = <<"install", plan[i]>>

\* C35's divergence: a scan over a plan of two catalog tools has just returned;
\* the first was not installed and was passed over, no install command having
\* been launched though git, which its installation needs, is on PATH; the
\* second was run.
C35_SkippedWithoutInstall ==
    /\ last.op = "scan"
    /\ last.ok
    /\ last.oracle[1] = <<"sqlmap", "nuclei">>
    /\ ~mem["cli"]["sqlmap"].installed
    /\ "git" \in path
    /\ last.ret[1] = <<"sqlmap", FALSE, FALSE>>
    /\ last.ret[2][2]
    /\ last.cmds = <<<<"run", "nuclei">>>>

\* C36: Update converges. When an Update has run the update command and
\* succeeded, and the tool is available, an Update of the same tool repeated at
\* once, the oracle answering as before, returns success without running any
\* command and changes neither the tool nor the state file, whatever version the
\* oracle's answer carries.
C36_UpdateConverges ==
    (/\ last.op = "update"
     /\ last.key \in Tools
     /\ last.ok
     /\ \E i \in 1..Len(last.cmds) : last.cmds[i] = <<"update", last.key>>
     /\ Available(World(last.engine), last.key)) =>
        \A u \in BOOLEAN :
            LET again == UpdateTool(World(last.engine), last.key,
                                    [resp |-> last.oracle[1].resp, upd_ok |-> u,
                                     install |-> NoInstallInput], now)
            IN  /\ again.ok = TRUE
                /\ again.w.cmds = <<>>
                /\ again.w.mem[last.key].local_version =
                      mem[last.engine][last.key].local_version
                /\ again.w.file = file

\* C36's divergence: an Update has just run the update command and succeeded on
\* the oracle's answer of a release without a tag name; the tool's version is now
\* the empty string, and the same Update repeated runs the update command again.
C36_EmptyVersionRunsAgain ==
    /\ last.op = "update"
    /\ last.key \in Tools
    /\ last.ok
    /\ last.cmds = <<<<"update", last.key>>>>
    /\ Available(World(last.engine), last.key)
    /\ GetLatestRelease(Registry[last.key].repo, last.oracle[1].resp).result =
          [nonempty |-> TRUE, version |-> EmptyStr]
    /\ mem[last.engine][last.key].local_version = EmptyStr
    /\ UpdateTool(World(last.engine), last.key,
                  [resp |-> last.oracle[1].resp, upd_ok |-> TRUE,
                   install |-> NoInstallInput], now).w.cmds = <<<<"update", last.key>>>>

====
